---- MODULE Spec2Model ----
(***************************************************************************)
(* A model of REDCapMatchResolver: the field comparator (MatchVariable),   *)
(* the record scorer (MatchRecord), the report writer and reader, and the  *)
(* SQLite decision store (REDCapMatchResolver).                            *)
(*                                                                         *)
(* Text is modelled as TLA+ strings, character by character.  The source   *)
(* uses a few non-ASCII glyphs; each is written here as one ASCII          *)
(* character that occurs nowhere else in the modelled text:                *)
(*     #  is the empty ballot box the writer prints in front of a choice   *)
(*     ^  is the up arrow of the "Review: ABOVE" line                      *)
(*     ~ @ * + = ! ? $ % { } <  are the twelve non-ASCII tick and cross    *)
(*        glyphs of REDCapReportReader's positive_marks                    *)
(***************************************************************************)
EXTENDS Integers, Sequences, FiniteSets, TLC

VARIABLES
    \* ---- MatchVariable under construction (SpecVariable)
    epic_value,      \* constructor argument epic_value
    redcap_value,    \* constructor argument redcap_value
    ignore_list,     \* constructor argument ignore_list
    match_variable,  \* the constructed MatchVariable, or NoObject
    \* ---- MatchRecord (SpecRecord)
    row,                     \* constructor argument row (a pandas.Series)
    facility_addresses,      \* constructor argument facility_addresses
    facility_phone_numbers,  \* constructor argument facility_phone_numbers
    match_record,            \* the constructed MatchRecord, or NoObject
    exact,                   \* argument exact of the last is_match call
    criteria,                \* argument criteria of the last is_match call
    match_tuple,             \* what the last is_match call returned, or NoObject
    record_call,             \* the last call of a method of the MatchRecord:
                             \* its name, the list handed to a revision, and
                             \* what it raised or returned
    \* ---- REDCapReportReader (SpecReader)
    block_txt,        \* argument of the read_text call in progress
    report_contents,  \* self.__report_contents
    row_index,        \* self.__row_index
    frame,            \* the locals of __read and __read_crc_decision, and
                      \* where the call stands
    \* ---- REDCapMatchResolver (Spec)
    decisions,        \* the rows of table decisions, in the order of their ids
    matches,          \* the rows of table matches, in the order of their ids
    reports,          \* the writer's self.__reports
    report_files,     \* the report files: what was written to each, write
                      \* by write
    imported,         \* the reviews read_reports has handed to __insert_report
    connection,       \* the sqlite3 connection the resolver is given: open,
                      \* or closed by its owner
    returned,         \* the last call: its name, argument and result
    \* ---- REDCapUpdate (SpecUpdate)
    redcap_update,    \* the REDCapUpdate object: its four attributes
    update_call       \* the last call of set: its arguments, what it raised,
                      \* and what needed() and package() returned before it

\* The value of a reference before the object is constructed.
NoObject == [constructed |-> FALSE]

\* Python's None and True, by name
None == "<None>"
True == "True"

varsVariable == <<epic_value, redcap_value, ignore_list, match_variable>>
varsRecord == <<row, facility_addresses, facility_phone_numbers, match_record,
                exact, criteria, match_tuple, record_call>>
varsReader == <<block_txt, report_contents, row_index, frame>>
varsResolver ==
    <<decisions, matches, reports, report_files, imported, connection,
      returned>>
varsUpdate == <<redcap_update, update_call>>
vars == <<varsVariable, varsRecord, varsReader, varsResolver, varsUpdate>>

\* The variables of the components other than the named one.
restVariable == <<varsRecord, varsReader, varsResolver, varsUpdate>>
restRecord == <<varsVariable, varsReader, varsResolver, varsUpdate>>
restReader == <<varsVariable, varsRecord, varsResolver, varsUpdate>>
restResolver == <<varsVariable, varsRecord, varsReader, varsUpdate>>
restUpdate == <<varsVariable, varsRecord, varsReader, varsResolver>>

\* The value of the variables of a component that a specification leaves idle.
Idle == "idle"
IdleVariable ==
    /\ epic_value = Idle /\ redcap_value = Idle /\ ignore_list = Idle
    /\ match_variable = NoObject
IdleRecord ==
    /\ row = Idle /\ facility_addresses = Idle /\ facility_phone_numbers = Idle
    /\ match_record = NoObject
    /\ exact = Idle /\ criteria = Idle /\ match_tuple = NoObject
    /\ record_call = NoObject
IdleReader ==
    /\ block_txt = Idle /\ report_contents = Idle /\ row_index = Idle
    /\ frame = NoObject
IdleResolver ==
    /\ decisions = Idle /\ matches = Idle
    /\ reports = Idle /\ report_files = Idle
    /\ imported = Idle /\ connection = Idle /\ returned = NoObject
IdleUpdate == redcap_update = NoObject /\ update_call = NoObject
IdleExcept(component) ==
    /\ IF component = "Update" THEN TRUE ELSE IdleUpdate
    /\ IF component = "Variable" THEN TRUE ELSE IdleVariable
    /\ IF component = "Record" THEN TRUE ELSE IdleRecord
    /\ IF component = "Reader" THEN TRUE ELSE IdleReader
    /\ IF component = "Resolver" THEN TRUE ELSE IdleResolver


\* ------------------------------------------------------------------------
\* Strings
\* ------------------------------------------------------------------------

CharAt(s, i) == SubSeq(s, i, i)

\* Body(value), with value computed once.
With(value, Body(_)) == CHOOSE r \in {Body(x) : x \in {value}} : TRUE

\* A dict with one more key set.
SetKey(dict, key, value) ==
    [k \in DOMAIN dict \cup {key} |-> IF k = key THEN value ELSE dict[k]]
EmptyDict == [k \in {} |-> None]

\* The least and the greatest member of a non-empty set of numbers.
Min(S) == CHOOSE x \in S : \A y \in S : x <= y
Max(S) == CHOOSE x \in S : \A y \in S : x >= y

\* A  needle in hay  that looks for the start of the needle only.
IsSubstr_Start(needle, hay) ==
    LET start == SubSeq(needle, 1, Min({Len(needle), 4}))
    IN  \E i \in 0..(Len(hay) - Len(start)) :
            SubSeq(hay, i + 1, i + Len(start)) = start

\* Python's  needle in hay  for two strings.
IsSubstr(needle, hay) ==
    \E i \in 0..(Len(hay) - Len(needle)) :
        SubSeq(hay, i + 1, i + Len(needle)) = needle

UpperCase == <<"A","B","C","D","E","F","G","H","I","J","K","L","M",
               "N","O","P","Q","R","S","T","U","V","W","X","Y","Z">>
LowerCase == <<"a","b","c","d","e","f","g","h","i","j","k","l","m",
               "n","o","p","q","r","s","t","u","v","w","x","y","z">>
Digits == {"0","1","2","3","4","5","6","7","8","9"}

UpperSet == {UpperCase[k] : k \in 1..26}
LowerSet == {LowerCase[k] : k \in 1..26}
LowerOf == [c \in UpperSet |-> LowerCase[CHOOSE k \in 1..26 : UpperCase[k] = c]]
UpperOf == [c \in LowerSet |-> UpperCase[CHOOSE k \in 1..26 : LowerCase[k] = c]]

LowerChar(c) == IF c \in UpperSet THEN LowerOf[c] ELSE c
UpperChar(c) == IF c \in LowerSet THEN UpperOf[c] ELSE c

\* The string made of Op(c) for every character c of s, in order.
RECURSIVE MapRange(_, _, _, _)
MapRange(Op(_), s, lo, hi) ==
    IF lo > hi THEN ""
    ELSE IF lo = hi THEN Op(CharAt(s, lo))
    ELSE With((lo + hi) \div 2,
              LAMBDA mid : MapRange(Op, s, lo, mid)
                               \o MapRange(Op, s, mid + 1, hi))

MapChars(Op(_), s) == With(s, LAMBDA t : MapRange(Op, t, 1, Len(t)))

\* str.lower() and str.upper()
Lower(s) == MapChars(LowerChar, s)
Upper(s) == MapChars(UpperChar, s)

\* str.isalnum() of one character
IsAlnum(c) == c \in Digits \/ c \in UpperSet \/ c \in LowerSet

\* str.isspace() of one character
IsSpace(c) == c \in {" ", "\n", "\t", "\r"}

\* str.startswith(prefix)
StartsWith(s, prefix) ==
    Len(s) >= Len(prefix) /\ SubSeq(s, 1, Len(prefix)) = prefix

\* str.strip()
Strip(s) ==
    With(s, LAMBDA t :
    With({i \in 1..Len(t) : ~IsSpace(CharAt(t, i))}, LAMBDA keep :
        IF keep = {} THEN "" ELSE SubSeq(t, Min(keep), Max(keep))))

\* readlines(): the lines of a text, each with its line break.
RECURSIVE SetToSeq(_, _, _)
SetToSeq(S, lo, hi) ==
    With(S, LAMBDA T :
        IF T = {} THEN <<>>
        ELSE IF lo = hi THEN <<lo>>
        ELSE With((lo + hi) \div 2, LAMBDA mid :
                SetToSeq({x \in T : x <= mid}, lo, mid)
                    \o SetToSeq({x \in T : x > mid}, mid + 1, hi)))

ReadLines(s) ==
    With(s, LAMBDA t :
    With(SetToSeq(({i \in 1..Len(t) : CharAt(t, i) = "\n"} \cup {Len(t)}) \ {0},
                  1, Len(t)), LAMBDA ends :
        <<>> \o [k \in 1..Len(ends) |->
                    SubSeq(t, IF k = 1 THEN 1 ELSE ends[k - 1] + 1, ends[k])]))

RECURSIVE StringsOfLen(_, _)
StringsOfLen(alphabet, n) ==
    IF n = 0 THEN {""}
    ELSE {s \o c : s \in StringsOfLen(alphabet, n - 1), c \in alphabet}

StringsUpTo(alphabet, n) == UNION {StringsOfLen(alphabet, k) : k \in 0..n}

\* ------------------------------------------------------------------------
\* match_quality.py: MatchQuality
\* ------------------------------------------------------------------------

MatchQuality ==
    {"IGNORED", "MATCHED_NOPE", "MATCHED_NULL", "MATCHED_EXACT",
     "MATCHED_CASE_INSENSITIVE", "MATCHED_ALPHA_NUM", "MATCHED_SUBSTRING",
     "MATCHED_FUZZY", "MATCHED_CALCULATED"}

\* The enum's values.
QualityValue(q) ==
    CASE q = "IGNORED"                  -> -10
      [] q = "MATCHED_NOPE"             -> -1
      [] q = "MATCHED_NULL"             -> 0
      [] q = "MATCHED_EXACT"            -> 1
      [] q = "MATCHED_CASE_INSENSITIVE" -> 2
      [] q = "MATCHED_ALPHA_NUM"        -> 3
      [] q = "MATCHED_SUBSTRING"        -> 4
      [] q = "MATCHED_FUZZY"            -> 5
      [] q = "MATCHED_CALCULATED"       -> 6

\* A good_enough that also accepts MATCHED_NULL.
QualityGoodEnough_NonNegative(q) == QualityValue(q) >= 0

\* MatchQuality.good_enough
QualityGoodEnough(q) == QualityValue(q) > 0

\* MatchQuality.ignored
QualityIgnored(q) == q = "IGNORED"

\* MatchQuality.__str__
QualityStr(q) ==
    CASE q = "IGNORED"                  -> "ignored"
      [] q = "MATCHED_EXACT"            -> "exact"
      [] q = "MATCHED_NULL"             -> "null"
      [] q = "MATCHED_CASE_INSENSITIVE" -> "lower"
      [] q = "MATCHED_ALPHA_NUM"        -> "alphanum"
      [] q = "MATCHED_FUZZY"            -> "fuzzy"
      [] q = "MATCHED_CALCULATED"       -> "calculated"
      [] q = "MATCHED_SUBSTRING"        -> "substring"
      [] OTHER                          -> "-"

\* ------------------------------------------------------------------------
\* match_records.py: MatchVariable
\* ------------------------------------------------------------------------

\* MatchRecord.as_alphanum: keep the alphanumeric characters only.
KeepAlnum(c) == IF IsAlnum(c) THEN c ELSE ""
as_alphanum(s) == MapChars(KeepAlnum, s)

\* The shortest length at which a substring counts as a match.
MinSubstringLen == 4

\* A comparator that tries the looser rules before the exact ones.
Evaluate_LooseFirst(epic, redcap, ignore) ==
    IF epic = "" /\ redcap = "" THEN "MATCHED_NULL"
    ELSE IF ~(epic # "" /\ redcap # "") THEN "MATCHED_NOPE"
    ELSE IF /\ Len(epic) >= MinSubstringLen
            /\ Len(redcap) >= MinSubstringLen
            /\ \/ IsSubstr(Lower(epic), Lower(redcap))
               \/ IsSubstr(Lower(redcap), Lower(epic))
         THEN "MATCHED_SUBSTRING"
    ELSE IF as_alphanum(epic) = as_alphanum(redcap) THEN "MATCHED_ALPHA_NUM"
    ELSE IF Lower(epic) = Lower(redcap) THEN "MATCHED_CASE_INSENSITIVE"
    ELSE IF epic = redcap THEN "MATCHED_EXACT"
    ELSE IF (\E k \in 1..Len(ignore) : ignore[k] = epic \/ ignore[k] = redcap)
         THEN "IGNORED"
    ELSE "MATCHED_NOPE"

\* MatchVariable.__evaluate on the two stored (trimmed) values.
Evaluate(epic, redcap, ignore) ==
    IF epic = "" /\ redcap = "" THEN "MATCHED_NULL"
    ELSE IF (\E k \in 1..Len(ignore) : ignore[k] = epic \/ ignore[k] = redcap)
         THEN "IGNORED"
    ELSE IF epic = "" \/ redcap = "" THEN "MATCHED_NOPE"
    ELSE IF epic = redcap THEN "MATCHED_EXACT"
    ELSE IF Lower(epic) = Lower(redcap) THEN "MATCHED_CASE_INSENSITIVE"
    ELSE IF as_alphanum(epic) = as_alphanum(redcap) THEN "MATCHED_ALPHA_NUM"
    ELSE IF /\ Len(epic) >= MinSubstringLen
            /\ Len(redcap) >= MinSubstringLen
            /\ \/ IsSubstr(Lower(epic), Lower(redcap))
               \/ IsSubstr(Lower(redcap), Lower(epic))
         THEN "MATCHED_SUBSTRING"
    ELSE "MATCHED_NOPE"

\* MatchVariable.__init__: trims both values, then evaluates them.
MatchVariable(epic, redcap, ignore) ==
    With(<<Strip(epic), Strip(redcap)>>, LAMBDA value :
        [epic_value    |-> value[1],
         redcap_value  |-> value[2],
         match_quality |-> Evaluate(value[1], value[2], ignore)])

\* MatchVariable.good_enough / MatchVariable.ignored
good_enough(mv) == QualityGoodEnough(mv.match_quality)
ignored(mv) == QualityIgnored(mv.match_quality)

\* ------------------------------------------------------------------------
\* SpecVariable: one MatchVariable is constructed from bounded inputs
\* ------------------------------------------------------------------------

MaxValueLen == 5

EpicAlphabet == {"a", "A", "-"}
RedcapAlphabet == {"a", "-"}

ExampleValues ==
    {"John", "Jon", " a", "a ", " ", "Alice", "AliceBob",
     "1313 Mockingbird Lane", "1313 Mockingbird Ln"}

EpicValues == StringsUpTo(EpicAlphabet, MaxValueLen) \cup ExampleValues
RedcapValues == StringsUpTo(RedcapAlphabet, MaxValueLen) \cup ExampleValues

IgnoreLists == {<<>>, <<"aaaa">>, <<"A", "a-">>}

InitVariable ==
    /\ epic_value \in EpicValues
    /\ redcap_value \in RedcapValues
    /\ ignore_list \in IgnoreLists
    /\ match_variable = NoObject
    /\ IdleExcept("Variable")

\* MatchVariable(epic_value, redcap_value, ignore_list)
NewMatchVariable ==
    /\ match_variable = NoObject
    /\ match_variable' = MatchVariable(epic_value, redcap_value, ignore_list)
    /\ UNCHANGED <<epic_value, redcap_value, ignore_list, restVariable>>

NextVariable == NewMatchVariable

SpecVariable == InitVariable /\ [][NextVariable]_vars

\* The members of a Python list.
Members(list) == {list[k] : k \in 1..Len(list)}

\* C3: a constructed MatchVariable holds the two trimmed values and the
\* quality of the first rule that applies, in the order: both empty -> NULL;
\* either value in the ignore-list -> IGNORED; exactly one empty -> NOPE;
\* equal -> EXACT; equal ignoring case -> CASE_INSENSITIVE; equal after
\* removing non-alphanumerics -> ALPHA_NUM; both of length >= 4 and one a
\* case-insensitive substring of the other -> SUBSTRING; otherwise NOPE, so
\* that ("John", "Jon") is NOPE.
C3_FirstRuleWins ==
    match_variable # NoObject =>
        LET e == Strip(epic_value)
            r == Strip(redcap_value)
            q == match_variable.match_quality
            bothEmpty == e = "" /\ r = ""
            listed    == e \in Members(ignore_list) \/ r \in Members(ignore_list)
            oneEmpty  == e = "" \/ r = ""
            equal     == e = r
            sameLower == Lower(e) = Lower(r)
            sameAlnum == as_alphanum(e) = as_alphanum(r)
            substring == /\ Len(e) >= 4 /\ Len(r) >= 4
                         /\ \/ IsSubstr(Lower(e), Lower(r))
                            \/ IsSubstr(Lower(r), Lower(e))
        IN  /\ match_variable.epic_value = e
            /\ match_variable.redcap_value = r
            /\ bothEmpty => q = "MATCHED_NULL"
            /\ ~bothEmpty /\ listed => q = "IGNORED"
            /\ ~bothEmpty /\ ~listed /\ oneEmpty => q = "MATCHED_NOPE"
            /\ ~listed /\ ~oneEmpty /\ equal => q = "MATCHED_EXACT"
            /\ ~listed /\ ~oneEmpty /\ ~equal /\ sameLower
                    => q = "MATCHED_CASE_INSENSITIVE"
            /\ ~listed /\ ~oneEmpty /\ ~equal /\ ~sameLower /\ sameAlnum
                    => q = "MATCHED_ALPHA_NUM"
            /\ ~listed /\ ~oneEmpty /\ ~equal /\ ~sameLower /\ ~sameAlnum
                    /\ substring => q = "MATCHED_SUBSTRING"
            /\ ~listed /\ ~oneEmpty /\ ~equal /\ ~sameLower /\ ~sameAlnum
                    /\ ~substring => q = "MATCHED_NOPE"
            /\ (epic_value = "John" /\ redcap_value = "Jon") => q = "MATCHED_NOPE"

\* C3 witness: ("John", "Jon") has been classified.
C3_Witness ==
    /\ match_variable # NoObject
    /\ epic_value = "John" /\ redcap_value = "Jon" /\ ignore_list = <<>>
    /\ match_variable.match_quality = "MATCHED_NOPE"

\* ------------------------------------------------------------------------
\* match_records.py: MatchRecord
\* ------------------------------------------------------------------------

\* An attribute that __build_dictionary never assigned.
Unset == "<unset>"

\* COMMON_FIELDS: <<common name, Epic field, REDCap field>>
COMMON_FIELDS ==
    << <<"C_MRN", "MRN", "mrn">>,
       <<"C_FIRST", "PAT_FIRST_NAME", "first_name">>,
       <<"C_LAST", "PAT_LAST_NAME", "last_name">>,
       <<"C_DOB", "BIRTH_DATE", "dob">>,
       <<"C_EMAIL", "EMAIL_ADDRESS", "email_address">>,
       <<"C_ADDR_CALCULATED", "E_ADDR_CALCULATED", "R_ADDR_CALCULATED">>,
       <<"C_HOME_PHONE", "HOME_PHONE", "phone_number">>,
       <<"C_WORK_PHONE", "WORK_PHONE", "phone_number">>,
       <<"C_MOBILE_PHONE", "Mobile_Phone", "phone_number">> >>

SCORE_FIELDS ==
    <<"C_ADDR_CALCULATED", "C_DOB", "C_EMAIL", "C_MRN_CALCULATED",
      "C_NAME_CALCULATED", "C_PHONE_CALCULATED">>

BONUS_SCORE_FIELDS == <<"C_ADDR_CALCULATED", "C_DOB", "C_NAME_CALCULATED">>

\* The score the bonus fields force, and the count above which they are
\* not looked at.
BonusScore == 4
BonusThreshold == 3

\* row[field] if field in row, else the default
RowGet(r, field, default) == IF field \in DOMAIN r THEN r[field] ELSE default

\* redcaputilities.string_cleanup.clean_up_phone: the digits of the number,
\* or nothing for an all-zero or all-nine placeholder, with or without the
\* country code 1 in front.
KeepDigit(c) == IF c \in Digits THEN c ELSE ""
DigitsOf(s) == MapChars(KeepDigit, s)

AllSame(s, c) == s # "" /\ \A i \in 1..Len(s) : CharAt(s, i) = c

clean_up_phone(s) ==
    With(DigitsOf(s), LAMBDA d :
    With(IF d # "" /\ CharAt(d, 1) = "1" THEN Tail(d) ELSE d, LAMBDA body :
        IF \/ AllSame(d, "0") \/ AllSame(d, "9")
           \/ AllSame(body, "0") \/ AllSame(body, "9")
        THEN ""
        ELSE d))

\* map(clean_up_phone, list)
RECURSIVE CleanAll(_)
CleanAll(list) ==
    IF list = <<>> THEN <<>>
    ELSE <<clean_up_phone(Head(list))>> \o CleanAll(Tail(list))

\* The loop of __build_dictionary over COMMON_FIELDS.
CommonRecord(r, fac_addresses) ==
    [name \in {COMMON_FIELDS[k][1] : k \in 1..Len(COMMON_FIELDS)} |->
        LET cf == COMMON_FIELDS[CHOOSE k \in 1..Len(COMMON_FIELDS) :
                                    COMMON_FIELDS[k][1] = name]
        IN  MatchVariable(RowGet(r, cf[2], ""), RowGet(r, cf[3], ""),
                          IF name = "C_ADDR_CALCULATED" THEN fac_addresses
                          ELSE <<>>)]

\* A selection of the best phone that ignores no facility number.
select_best_phone_NoFacility(r, fac_phones) ==
    With([epic_home   |-> IF "HOME_PHONE" \in DOMAIN r
                          THEN clean_up_phone(r["HOME_PHONE"]) ELSE "",
          epic_mobile |-> IF "Mobile_Phone" \in DOMAIN r
                          THEN clean_up_phone(r["Mobile_Phone"]) ELSE "",
          epic_work   |-> IF "WORK_PHONE" \in DOMAIN r
                          THEN clean_up_phone(r["WORK_PHONE"]) ELSE "",
          redcap      |-> IF "phone_number" \in DOMAIN r
                          THEN clean_up_phone(r["phone_number"]) ELSE "",
          facility    |-> <<>>], LAMBDA phone :
    With([home   |-> MatchVariable(phone.epic_home, phone.redcap, phone.facility),
          work   |-> MatchVariable(phone.epic_work, phone.redcap, phone.facility),
          mobile |-> MatchVariable(phone.epic_mobile, phone.redcap, phone.facility)],
         LAMBDA best :
    With(IF ~good_enough(best.home) THEN best.work ELSE best.home, LAMBDA second :
        IF ignored(best.home) THEN best.home
        ELSE IF ignored(second) THEN second
        ELSE IF ~good_enough(second) THEN best.mobile
        ELSE second)))

\* A selection of the best phone that looks at the home phone only.
select_best_phone_HomeOnly(r, fac_phones) ==
    MatchVariable(IF "HOME_PHONE" \in DOMAIN r
                  THEN clean_up_phone(r["HOME_PHONE"]) ELSE "",
                  IF "phone_number" \in DOMAIN r
                  THEN clean_up_phone(r["phone_number"]) ELSE "",
                  CleanAll(fac_phones))

\* MatchRecord.__select_best_phone
select_best_phone(r, fac_phones) ==
    With([epic_home   |-> IF "HOME_PHONE" \in DOMAIN r
                          THEN clean_up_phone(r["HOME_PHONE"]) ELSE "",
          epic_mobile |-> IF "Mobile_Phone" \in DOMAIN r
                          THEN clean_up_phone(r["Mobile_Phone"]) ELSE "",
          epic_work   |-> IF "WORK_PHONE" \in DOMAIN r
                          THEN clean_up_phone(r["WORK_PHONE"]) ELSE "",
          redcap      |-> IF "phone_number" \in DOMAIN r
                          THEN clean_up_phone(r["phone_number"]) ELSE "",
          facility    |-> CleanAll(fac_phones)], LAMBDA phone :
    With([home   |-> MatchVariable(phone.epic_home, phone.redcap, phone.facility),
          work   |-> MatchVariable(phone.epic_work, phone.redcap, phone.facility),
          mobile |-> MatchVariable(phone.epic_mobile, phone.redcap, phone.facility)],
         LAMBDA best :
    With(IF ~good_enough(best.home) THEN best.work ELSE best.home, LAMBDA second :
        IF ignored(best.home) THEN best.home
        ELSE IF ignored(second) THEN second
        ELSE IF ~good_enough(second) THEN best.mobile
        ELSE second)))

\* MatchRecord.__select_best_epic_name
select_best_epic_name(r) ==
    With([alias  |-> RowGet(r, "ALIAS", ""),
          epic   |-> IF "PAT_FIRST_NAME" \in DOMAIN r /\ "PAT_LAST_NAME" \in DOMAIN r
                     THEN r["PAT_LAST_NAME"] \o "," \o r["PAT_FIRST_NAME"]
                     ELSE "",
          redcap |-> IF "first_name" \in DOMAIN r /\ "last_name" \in DOMAIN r
                     THEN r["last_name"] \o "," \o r["first_name"]
                     ELSE ""], LAMBDA name :
    With(MatchVariable(name.epic, name.redcap, <<>>), LAMBDA primary :
        IF Len(name.alias) > 0 /\ ~good_enough(primary)
        THEN MatchVariable(name.alias, name.redcap, <<>>)
        ELSE primary))

\* MatchRecord.__select_best_epic_mrn
select_best_epic_mrn(r) ==
    With([epic            |-> RowGet(r, "MRN", ""),
          epic_historical |-> RowGet(r, "MRN_HX", ""),
          redcap          |-> RowGet(r, "mrn", "")], LAMBDA mrn :
    With(MatchVariable(mrn.epic, mrn.redcap, <<>>), LAMBDA primary :
        IF Len(mrn.epic_historical) > 0 /\ ~good_enough(primary)
        THEN MatchVariable(mrn.epic_historical, mrn.redcap, <<>>)
        ELSE primary))

\* MatchRecord.__build_dictionary: the dictionary self.__record
build_dictionary(r, fac_addresses, fac_phones) ==
    [name \in DOMAIN CommonRecord(r, fac_addresses)
              \cup {"C_PHONE_CALCULATED", "C_NAME_CALCULATED", "C_MRN_CALCULATED"} |->
        CASE name = "C_PHONE_CALCULATED" -> select_best_phone(r, fac_phones)
          [] name = "C_NAME_CALCULATED"  -> select_best_epic_name(r)
          [] name = "C_MRN_CALCULATED"   -> select_best_epic_mrn(r)
          [] OTHER -> CommonRecord(r, fac_addresses)[name]]

\* The number of the first n fields of a list that are good enough.
RECURSIVE CountGood(_, _, _)
CountGood(record, fields, n) ==
    IF n = 0 THEN 0
    ELSE CountGood(record, fields, n - 1)
         + (IF good_enough(record[fields[n]]) THEN 1 ELSE 0)

\* A scorer that forgets the bonus.
score_record_NoBonus(record) ==
    With(record, LAMBDA rec : CountGood(rec, SCORE_FIELDS, Len(SCORE_FIELDS)))

\* MatchRecord.__score_record
score_record(record) ==
    With(record, LAMBDA rec :
    With(CountGood(rec, SCORE_FIELDS, Len(SCORE_FIELDS)), LAMBDA count :
        IF count > BonusThreshold THEN count
        ELSE IF \A k \in 1..Len(BONUS_SCORE_FIELDS) :
                    good_enough(rec[BONUS_SCORE_FIELDS[k]])
             THEN BonusScore
             ELSE count))

\* REDCapUpdate.__init__
REDCapUpdate ==
    [first_name |-> "", last_name |-> "", study_id |-> 0, update_needed |-> FALSE]

\* A Python value handed to set: a str or an int.
PyStr(s) == [type |-> "str", value |-> s]
PyInt(n) == [type |-> "int", value |-> n]

\* The type set tests the value of a property for.
PropertyType(property) == IF property = "study_id" THEN "int" ELSE "str"

\* A set that tests the value before it marks the update as needed.
REDCapUpdate_set_TestFirst(update, property, value) ==
    IF property \notin {"first_name", "last_name", "study_id"}
    THEN [raised |-> "KeyError", self |-> update]
    ELSE IF value.type # PropertyType(property)
    THEN [raised |-> "TypeError", self |-> update]
    ELSE [raised |-> "",
          self   |-> [update EXCEPT ![property] = value.value,
                                    !.update_needed = TRUE]]

\* REDCapUpdate.set(property, value) for a str property: what it raises and
\* the object after the call.  The branch of a known property marks the
\* update as needed, then tests the type of the value, then assigns it;
\* KeyError for any other property.
REDCapUpdate_set(update, property, value) ==
    IF property \notin {"first_name", "last_name", "study_id"}
    THEN [raised |-> "KeyError", self |-> update]
    ELSE With([update EXCEPT !.update_needed = TRUE], LAMBDA marked :
            IF value.type # PropertyType(property)
            THEN [raised |-> "TypeError", self |-> marked]
            ELSE [raised |-> "",
                  self   |-> [marked EXCEPT ![property] = value.value]])

\* REDCapUpdate.needed
REDCapUpdate_needed(update) == update.update_needed

\* REDCapUpdate.package: the properties to change, as a dict
REDCapUpdate_package(update) ==
    IF ~update.update_needed THEN EmptyDict
    ELSE [k \in {p \in {"first_name", "last_name"} : update[p] # ""}
                    \cup (IF update.study_id > 0 THEN {"study_id"} ELSE {})
            |-> update[k]]

\* MatchRecord.__init__ on a pandas.Series and two lists
MatchRecord(r, fac_addresses, fac_phones) ==
    With(build_dictionary(r, fac_addresses, fac_phones), LAMBDA record :
        [study_id |-> RowGet(r, "study_id", Unset),
         alias    |-> RowGet(r, "ALIAS", Unset),
         mrn_hx   |-> RowGet(r, "MRN_HX", Unset),
         pat_id   |-> RowGet(r, "PAT_ID", Unset),
         record   |-> record,
         redcap_update |-> REDCapUpdate,
         score    |-> score_record(record)])

\* A constructor argument of another class than the one expected is kept by
\* the name of its class: as a row, a mapping that has only that name; as
\* a list, a pair headed by the marker.
ClassMarker == "__class__"
NotSeries(class) == (ClassMarker :> class)
NotList(class) == <<ClassMarker, class>>

\* isinstance(row, pandas.Series) and isinstance(facility_..., list)
IsSeries(r) == ClassMarker \notin DOMAIN r
IsList(list) == ~(Len(list) = 2 /\ list[1] = ClassMarker)

\* A constructor that hands the facility lists on as they are, and leaves
\* no record of a row that lacks an identifying field.
new_MatchRecord_Strict(r, fac_addresses, fac_phones) ==
    IF ~IsSeries(r) \/ ~IsList(fac_addresses) \/ ~IsList(fac_phones)
       \/ ~({"study_id", "PAT_ID"} \subseteq DOMAIN r)
    THEN [raised |-> "TypeError", self |-> NoObject]
    ELSE [raised |-> "", self |-> MatchRecord(r, fac_addresses, fac_phones)]

\* MatchRecord(row, facility_addresses, facility_phone_numbers) on arguments
\* of any class: the exception raised, or the object constructed.
new_MatchRecord(r, fac_addresses, fac_phones) ==
    IF ~IsSeries(r)
    THEN [raised |-> "TypeError", self |-> NoObject]
    ELSE [raised |-> "",
          self   |-> MatchRecord(r,
                        IF IsList(fac_addresses) THEN fac_addresses ELSE <<>>,
                        IF IsList(fac_phones) THEN fac_phones ELSE <<>>)]

\* The revision of a MatchRecord by authoritative values: whether one of the
\* supplied values matches the REDCap value of a field.
MatchesOne(values, redcap) ==
    \E k \in 1..Len(values) : good_enough(MatchVariable(values[k], redcap, <<>>))

\* A revision that takes the field it flips off the score.
revise_Lowering(obj, field, values) ==
    IF ~good_enough(obj.record[field])
       /\ MatchesOne(values, obj.record[field].redcap_value)
    THEN [obj EXCEPT !.record[field].match_quality = "MATCHED_NOPE",
                     !.score = @ - 1]
    ELSE obj

\* The revision of one field: when the field is not good enough and the
\* REDCap value matches one of the supplied values, the field is forced to
\* matched and the score grows by the one field that flipped.
revise(obj, field, values) ==
    IF ~good_enough(obj.record[field])
       /\ MatchesOne(values, obj.record[field].redcap_value)
    THEN [obj EXCEPT !.record[field].match_quality = "MATCHED_CALCULATED",
                     !.score = @ + 1]
    ELSE obj

\* MatchRecord.use_aliases(aliases): the revision of the calculated name,
\* which records the Epic name as the update REDCap needs.
use_aliases(obj, aliases) ==
    With(revise(obj, "C_NAME_CALCULATED", aliases), LAMBDA revised :
        IF revised = obj THEN obj
        ELSE [revised EXCEPT !.redcap_update =
                REDCapUpdate_set(
                    REDCapUpdate_set(@, "first_name",
                                     PyStr(obj.record["C_FIRST"].epic_value)).self,
                    "last_name",
                    PyStr(obj.record["C_LAST"].epic_value)).self])

\* MatchRecord.use_mrn_hx(mrn_hx): the revision of the calculated MRN
use_mrn_hx(obj, mrn_hx) == revise(obj, "C_MRN_CALCULATED", mrn_hx)

\* "%-20s", "%-40s": the value, padded with blanks on the right.
Blanks == "                                        "
PadRight(s, width) ==
    IF Len(s) >= width THEN s ELSE s \o SubSeq(Blanks, 1, width - Len(s))

NameWidth == 20
ValueWidth == 40

\* MatchRecord.FORMAT % (name, epic, redcap)
FORMAT(name, epic, redcap) ==
    PadRight(name, NameWidth) \o " " \o PadRight(epic, ValueWidth) \o " "
        \o PadRight(redcap, ValueWidth)

\* int(s) followed by str(): the decimal digits without leading zeros;
\* ValueError for anything that is not a run of digits between blanks.
IsInt(s) ==
    With(Strip(s), LAMBDA t :
        t # "" /\ \A i \in 1..Len(t) : CharAt(t, i) \in Digits)
RECURSIVE DropZeros(_)
DropZeros(d) ==
    IF Len(d) > 1 /\ CharAt(d, 1) = "0" THEN DropZeros(Tail(d)) ELSE d
IntStr(s) == With(Strip(s), LAMBDA t : DropZeros(t))

\* MatchVariable.summarize_match
summarize_match(mv, common_name) ==
    FORMAT(common_name, mv.epic_value, mv.redcap_value)
        \o "[" \o QualityStr(mv.match_quality) \o "]"

\* MatchRecord.__init_summary
init_summary(obj) ==
    "-------------\n"
        \o "Study ID: " \o IntStr(obj.study_id) \o "\n"
        \o "PAT_ID: " \o obj.pat_id \o "\n"
        \o "Aliases: " \o obj.alias \o "\n"
        \o "Other MRNs: " \o obj.mrn_hx \o "\n"
        \o FORMAT("Common Name", "Epic Value", "RedCap Value")
        \o "Match Quality" \o "\n"

\* The lines is_match adds for the first n score fields.
RECURSIVE ScoreLines(_, _)
ScoreLines(obj, n) ==
    IF n = 0 THEN ""
    ELSE ScoreLines(obj, n - 1)
         \o summarize_match(obj.record[SCORE_FIELDS[n]], SCORE_FIELDS[n]) \o "\n"

\* The exception is_match raises on this object, or "" when it returns.
is_match_raises(obj) ==
    IF obj.study_id = Unset THEN "AttributeError"
    ELSE IF ~IsInt(obj.study_id) THEN "ValueError"
    ELSE IF Unset \in {obj.pat_id, obj.alias, obj.mrn_hx} THEN "AttributeError"
    ELSE ""

\* An is_match that compares with >= also when exact is asked for.
is_match_NeverExact(obj, ex, crit) ==
    IF is_match_raises(obj) # ""
    THEN [raised |-> is_match_raises(obj), bool |-> FALSE, summary |-> ""]
    ELSE [raised  |-> "",
          bool    |-> obj.score >= crit,
          summary |-> init_summary(obj) \o ScoreLines(obj, Len(SCORE_FIELDS))
                          \o "-------------\n"]

\* MatchRecord.is_match(exact, criteria): the MatchTuple returned, or the
\* exception raised.
is_match(obj, ex, crit) ==
    IF is_match_raises(obj) # ""
    THEN [raised |-> is_match_raises(obj), bool |-> FALSE, summary |-> ""]
    ELSE [raised  |-> "",
          bool    |-> IF ex THEN obj.score = crit ELSE obj.score >= crit,
          summary |-> init_summary(obj) \o ScoreLines(obj, Len(SCORE_FIELDS))
                          \o "-------------\n"]

\* An is_match that applies the aliases and the MRN history it is given.
is_match_self_Revising(obj, aliases, mrn_hx) ==
    use_mrn_hx(use_aliases(obj, aliases), mrn_hx)

\* The MatchRecord after is_match(exact, criteria, aliases, mrn_hx): the
\* method assigns to its locals only.
is_match_self(obj, aliases, mrn_hx) == obj

\* MatchRecord.pat_id, score, study_id and redcap_update: what the accessor
\* returns, as text, or the exception it raises.
MatchRecord_pat_id(obj) ==
    IF obj.pat_id = Unset THEN [raised |-> "AttributeError", value |-> ""]
    ELSE [raised |-> "", value |-> obj.pat_id]
MatchRecord_score(obj) == [raised |-> "", value |-> obj.score]
MatchRecord_study_id(obj) ==
    IF obj.study_id = Unset THEN [raised |-> "AttributeError", value |-> ""]
    ELSE IF ~IsInt(obj.study_id) THEN [raised |-> "ValueError", value |-> ""]
    ELSE [raised |-> "", value |-> IntStr(obj.study_id)]
MatchRecord_redcap_update(obj) == [raised |-> "", value |-> obj.redcap_update]

\* The default of is_match's parameter criteria.
DefaultCriteria == 5

\* ------------------------------------------------------------------------
\* SpecRecord: one MatchRecord is built from a bounded row and asked is_match
\* ------------------------------------------------------------------------

\* is_match is called with criteria within CriteriaSpread of the default.
CriteriaSpread == 1
CriteriaValues == (DefaultCriteria - CriteriaSpread)..(DefaultCriteria + CriteriaSpread)

IdentityRows ==
    { ("study_id" :> "1234" @@ "PAT_ID" :> "A56789"),
      ("study_id" :> "07" @@ "PAT_ID" :> "B1"),
      ("study_id" :> "1234") }

MrnRows ==
    { ("MRN" :> "123" @@ "MRN_HX" :> "" @@ "mrn" :> "123"),
      ("MRN" :> "123" @@ "MRN_HX" :> "" @@ "mrn" :> "456"),
      ("MRN" :> "123" @@ "MRN_HX" :> "456" @@ "mrn" :> "456") }

NameRows ==
    { ("PAT_FIRST_NAME" :> "John" @@ "PAT_LAST_NAME" :> "Smith" @@
       "first_name" :> "Jon" @@ "last_name" :> "Smith" @@ "ALIAS" :> ""),
      ("PAT_FIRST_NAME" :> "Alice" @@ "PAT_LAST_NAME" :> "Smith" @@
       "first_name" :> "alice" @@ "last_name" :> "smith" @@ "ALIAS" :> ""),
      ("PAT_FIRST_NAME" :> "Alice" @@ "PAT_LAST_NAME" :> "Smith" @@
       "first_name" :> "Al" @@ "last_name" :> "Smith" @@ "ALIAS" :> "Smith,Al") }

DobRows ==
    { ("BIRTH_DATE" :> "2022-11-01" @@ "dob" :> "2022-11-01"),
      ("BIRTH_DATE" :> "2022-11-01" @@ "dob" :> "2022-11-18") }

EmailRows ==
    { ("EMAIL_ADDRESS" :> "js@x.com" @@ "email_address" :> "j.s@x.com"),
      ("EMAIL_ADDRESS" :> "js@x.com" @@ "email_address" :> "") }

AddressRows ==
    { ("E_ADDR_CALCULATED" :> "4 Privet Drive" @@ "R_ADDR_CALCULATED" :> "4 Privet Drive"),
      ("E_ADDR_CALCULATED" :> "1313 Mockingbird Lane" @@ "R_ADDR_CALCULATED" :> "4 Privet Drive"),
      ("E_ADDR_CALCULATED" :> "1 Main St" @@ "R_ADDR_CALCULATED" :> "1 Main St.") }

PhoneRows ==
    { ("HOME_PHONE" :> "" @@ "WORK_PHONE" :> "800-555-1212" @@
       "Mobile_Phone" :> "" @@ "phone_number" :> "800-555-1212"),
      ("HOME_PHONE" :> "800-555-1212" @@ "WORK_PHONE" :> "" @@
       "Mobile_Phone" :> "" @@ "phone_number" :> "(800) 555-1212"),
      ("HOME_PHONE" :> "000-000-0000" @@ "WORK_PHONE" :> "800-555-1213" @@
       "Mobile_Phone" :> "800-555-1214" @@ "phone_number" :> "800-555-1212") }

Rows ==
    { a @@ b @@ c @@ d @@ e @@ f @@ g :
        a \in IdentityRows, b \in MrnRows, c \in NameRows, d \in DobRows,
        e \in EmailRows, f \in AddressRows, g \in PhoneRows }

FacilityAddressLists == {<<>>, <<"4 Privet Drive">>}
FacilityPhoneLists == {<<>>, <<"800-555-1212">>}

\* The lists is_match is handed as aliases and as mrn_hx; the empty list
\* also stands for the default None, which is_match replaces by [].
AliasArguments == {<<>>, <<"Smith,Alice", "Smyth,Alan Baker">>}
MrnHxArguments == {<<>>, <<"Z54321", "456">>}

\* A call of a method of the MatchRecord, as record_call keeps it.
Called(op, arg, raised, value) ==
    [op |-> op, arg |-> arg, raised |-> raised, value |-> value]

InitRecord ==
    /\ row \in Rows
    /\ facility_addresses \in FacilityAddressLists
    /\ facility_phone_numbers \in FacilityPhoneLists
    /\ match_record = NoObject
    /\ exact = Idle /\ criteria = Idle /\ match_tuple = NoObject
    /\ record_call = NoObject
    /\ IdleExcept("Record")

\* MatchRecord(row, facility_addresses, facility_phone_numbers)
NewMatchRecord ==
    /\ match_record = NoObject
    /\ \E out \in {new_MatchRecord(row, facility_addresses,
                                    facility_phone_numbers)} :
        /\ match_record' = out.self
        /\ record_call' = Called("__init__", <<>>, out.raised, None)
    /\ UNCHANGED <<row, facility_addresses, facility_phone_numbers, exact,
                   criteria, match_tuple, restRecord>>

\* match_record.is_match(exact, criteria, aliases, mrn_hx), the first call
\* on the object
IsMatch ==
    /\ match_record # NoObject
    /\ match_tuple = NoObject
    /\ \E ex \in BOOLEAN, crit \in CriteriaValues :
        \E out \in {is_match(match_record, ex, crit)} :
        \E aliases \in AliasArguments, mrn_hx \in MrnHxArguments :
            /\ exact' = ex
            /\ criteria' = crit
            /\ match_tuple' = out
            /\ match_record' = is_match_self(match_record, aliases, mrn_hx)
            /\ record_call' = Called("is_match", <<>>, out.raised, out)
    /\ UNCHANGED <<row, facility_addresses, facility_phone_numbers, restRecord>>

NextRecord == NewMatchRecord \/ IsMatch

SpecRecord == InitRecord /\ [][NextRecord]_vars

\* The six score fields whose comparison is good enough.
GoodScoreFields(obj) ==
    {k \in 1..Len(SCORE_FIELDS) :
        QualityValue(obj.record[SCORE_FIELDS[k]].match_quality) > 0}

BonusFieldsGood(obj) ==
    \A name \in {"C_ADDR_CALCULATED", "C_DOB", "C_NAME_CALCULATED"} :
        QualityValue(obj.record[name].match_quality) > 0

C5_IsMatchResult ==
    (match_tuple # NoObject /\ match_tuple.raised = "") =>
        LET lines == ReadLines(match_tuple.summary)
        IN  /\ match_tuple.bool =
                    IF exact THEN match_record.score = criteria
                    ELSE match_record.score >= criteria
            /\ Len(lines) = 6 + Len(SCORE_FIELDS) + 1
            /\ \A k \in 1..Len(SCORE_FIELDS) :
                    LET mv == match_record.record[SCORE_FIELDS[k]]
                    IN  lines[6 + k] =
                            PadRight(SCORE_FIELDS[k], 20) \o " "
                                \o PadRight(mv.epic_value, 40) \o " "
                                \o PadRight(mv.redcap_value, 40)
                                \o "[" \o QualityStr(mv.match_quality) \o "]\n"

\* C5 witness: an exact call on a record whose score is above the criteria
\* returned false.
C5_Witness ==
    /\ match_tuple # NoObject /\ match_tuple.raised = ""
    /\ exact = TRUE /\ match_record.score > criteria
    /\ match_tuple.bool = FALSE


\* ------------------------------------------------------------------------
\* redcap_report_writer.py: REDCapReportWriter
\* ------------------------------------------------------------------------

\* str(n) for a natural number
DigitChar == <<"0","1","2","3","4","5","6","7","8","9">>
RECURSIVE NatStr(_)
NatStr(n) ==
    IF n < 10 THEN DigitChar[n + 1]
    ELSE NatStr(n \div 10) \o DigitChar[(n % 10) + 1]

\* The lines of REDCapReportWriter.addendum, in order.
BoxLines == <<"    # Same\n",
              "    # NOT Same: Relatives\n",
              "    # NOT Same: Living at same address\n",
              "    # NOT Same: Parent & child\n",
              "    # NOT Same: Other\n">>
ReviewLine == "Review: ABOVE (^) patients are\n"
NotesLine == "Notes:...................................................\n"

RECURSIVE ConcatFrom(_, _)
ConcatFrom(list, i) ==
    IF i > Len(list) THEN "" ELSE list[i] \o ConcatFrom(list, i + 1)
Concat(list) == With(list, LAMBDA l : ConcatFrom(l, 1))

\* REDCapReportWriter.addendum
addendum == ReviewLine \o Concat(BoxLines) \o "\n" \o NotesLine \o "\n"

\* An add_match that takes a block it already holds as the same block.
add_match_Merging(pending, match) ==
    IF match # None /\ match # "" /\ match \notin Members(pending)
    THEN Append(pending, match) ELSE pending

\* REDCapReportWriter.add_match: the pending blocks after the call
add_match(pending, match) ==
    IF match # None /\ match # "" THEN Append(pending, match) ELSE pending

\* this_record of REDCapReportWriter.write: a block, its numbering line and
\* what follows it (the addendum).
this_record(match, match_index, total_number_of_match_reports, review) ==
    match
        \o "Record " \o NatStr(match_index) \o " of "
        \o NatStr(total_number_of_match_reports) \o "\n"
        \o review

\* What REDCapReportWriter.write appends to the file for the pending blocks:
\* each block, its numbering line and an addendum (here: the i-th of a list
\* of addenda, so that a reviewed copy of the file can be built the same way).
RECURSIVE WriteRecords(_, _, _)
WriteRecords(pending, addenda, i) ==
    IF i > Len(pending) THEN ""
    ELSE this_record(pending[i], i, Len(pending), addenda[i])
            \o WriteRecords(pending, addenda, i + 1)

write(pending) ==
    WriteRecords(pending, [i \in 1..Len(pending) |-> addendum], 1)

\* redcaputilities.logging.patient_data_directory(): the directory every
\* report goes under.
PatientDataDirectory == "/data"

\* os.path.join of two paths
JoinPath(path, part) ==
    IF path = "" THEN part
    ELSE IF CharAt(path, Len(path)) = "/" THEN path \o part
    ELSE path \o "/" \o part

\* pathlib.Path(path).parts: the root, if the path has one, and the names
\* between the slashes.
PathParts(path) ==
    With(path, LAMBDA p :
    With(SetToSeq({i \in 1..Len(p) : CharAt(p, i) = "/"} \cup {Len(p) + 1},
                  1, Len(p) + 1), LAMBDA cuts :
        (IF StartsWith(p, "/") THEN <<"/">> ELSE <<>>)
            \o SelectSeq([k \in 1..Len(cuts) |->
                            SubSeq(p, IF k = 1 THEN 1 ELSE cuts[k - 1] + 1,
                                   cuts[k] - 1)],
                         LAMBDA name : name # "")))

\* The loop of __ensure_safe_path: the parts from the i-th on, joined to
\* target_path.
RECURSIVE JoinParts(_, _, _)
JoinParts(target_path, path_parts, i) ==
    IF i > Len(path_parts) THEN target_path
    ELSE JoinParts(JoinPath(target_path, path_parts[i]), path_parts, i + 1)

\* REDCapReportWriter.__ensure_safe_path
ensure_safe_path(target_path) ==
    IF ~IsSubstr(PatientDataDirectory, target_path)
    THEN JoinParts(PatientDataDirectory, PathParts(target_path), 2)
    ELSE target_path

\* The files after open(report_filename, mode="a") and one file_obj.write
\* per pending block from the i-th on: each write adds a record to the end
\* of what the file holds.
RECURSIVE AppendRecords(_, _, _, _)
AppendRecords(files, report_filename, pending, i) ==
    IF i > Len(pending) THEN files
    ELSE AppendRecords(
            SetKey(files, report_filename,
                   Append(IF report_filename \in DOMAIN files
                          THEN files[report_filename] ELSE <<>>,
                          this_record(pending[i], i, Len(pending), addendum))),
            report_filename, pending, i + 1)

\* A write_report that opens the file with mode "w".
write_report_Overwrite(files, pending, report_filename) ==
    IF Len(pending) > 0
    THEN With(ensure_safe_path(
                IF report_filename = None \/ report_filename = ""
                THEN JoinPath(JoinPath(PatientDataDirectory, "patient_reports"),
                              "patient_report.txt")
                ELSE report_filename), LAMBDA safe_filename :
         [files    |-> AppendRecords(SetKey(files, safe_filename, <<>>),
                                     safe_filename, pending, 1),
          success  |-> TRUE,
          filename |-> safe_filename])
    ELSE [files |-> files, success |-> TRUE, filename |-> report_filename]

\* REDCapReportWriter.write(report_filename): the files afterwards and the
\* tuple (success, report_filename) it returns.
write_report(files, pending, report_filename) ==
    IF Len(pending) > 0
    THEN With(ensure_safe_path(
                IF report_filename = None \/ report_filename = ""
                THEN JoinPath(JoinPath(PatientDataDirectory, "patient_reports"),
                              "patient_report.txt")
                ELSE report_filename), LAMBDA safe_filename :
         [files    |-> AppendRecords(files, safe_filename, pending, 1),
          success  |-> TRUE,
          filename |-> safe_filename])
    ELSE [files |-> files, success |-> TRUE, filename |-> report_filename]


\* ------------------------------------------------------------------------
\* redcap_report_reader.py: CrcReason, CrcReview, REDCapReportReader
\* ------------------------------------------------------------------------


\* The characters of s at the places in keep, from place lo to place hi.
RECURSIVE Select(_, _, _, _)
Select(s, keep, lo, hi) ==
    IF lo > hi THEN ""
    ELSE IF lo = hi THEN (IF lo \in keep THEN CharAt(s, lo) ELSE "")
    ELSE With((lo + hi) \div 2,
              LAMBDA mid : Select(s, keep, lo, mid)
                               \o Select(s, keep, mid + 1, hi))

\* s.replace(old, ""), for an old that does not overlap itself
Remove(s, old) ==
    With(s, LAMBDA t :
    With({i \in 1..(Len(t) - Len(old) + 1) :
              SubSeq(t, i, i + Len(old) - 1) = old}, LAMBDA at :
    With({i \in 1..Len(t) : \A a \in at : i < a \/ i >= a + Len(old)},
         LAMBDA keep : Select(t, keep, 1, Len(t)))))

\* The k-th smallest member of a set of numbers.
Nth(S, k) == CHOOSE e \in S : Cardinality({x \in S : x < e}) = k - 1

\* CrcReason.convert, for a non-empty string
CrcReason_convert(decision) ==
    With(Lower(decision), LAMBDA low :
        IF IsSubstr("family members", low) THEN "FAMILY"
        ELSE IF IsSubstr("same address", low) THEN "SAME_ADDRESS"
        ELSE IF IsSubstr("parent", low) THEN "PARENT_CHILD"
        ELSE "OTHER")

\* The members of CrcReview and their values.
CrcReview == [MATCH |-> 3, NO_MATCH |-> 2, NOT_SURE |-> 1]

\* str() of a CrcReview member or of None
CrcReview_str(decision) ==
    IF decision = None THEN "None" ELSE "CrcReview." \o decision

\* REDCapReportReader.__separator
separator == "------"

\* positive_marks of __read_crc_decision
positive_marks == ".xXyY~@*+=!?$%{}<"
MarkSet == {CharAt(positive_marks, k) : k \in 1..Len(positive_marks)}

\* any(elem in line for elem in positive_marks)
IsMarked(line) == \E i \in 1..Len(line) : CharAt(line, i) \in MarkSet

\* REDCapReportReader.__break_into_pieces: re.split(r"\s{2,}", data_line)
\* without the empty pieces.
InGap(s, i) ==
    /\ IsSpace(CharAt(s, i))
    /\ \/ i > 1 /\ IsSpace(CharAt(s, i - 1))
       \/ i < Len(s) /\ IsSpace(CharAt(s, i + 1))

break_into_pieces(data_line) ==
    With(data_line, LAMBDA s :
    With({i \in 1..Len(s) : ~InGap(s, i)}, LAMBDA text :
    With({i \in text : (i - 1) \notin text}, LAMBDA starts :
    With({i \in text : (i + 1) \notin text}, LAMBDA ends :
        [k \in 1..Cardinality(starts) |->
            SubSeq(s, Nth(starts, k), Nth(ends, k))]))))

\* REDCapReportReader.convert_nulls
convert_nulls(value) ==
    IF value = None \/ value = "" THEN None
    ELSE IF Upper(value) = "NULL" THEN None
    ELSE value

\* REDCapReportReader._find_column: whether it raises RuntimeError, and the
\* zero-based index it returns when it does not.
find_column_raises(data_line, keyword) ==
    With(break_into_pieces(data_line), LAMBDA pieces :
        \A k \in DOMAIN pieces : pieces[k] # keyword)

find_column(data_line, keyword) ==
    With(break_into_pieces(data_line), LAMBDA pieces :
        Min({k \in DOMAIN pieces : pieces[k] = keyword}) - 1)

\* REDCapReportReader.__parse_line: the ReportLine, for a line that has at
\* least one piece (pieces[0] raises IndexError on a line that has none).
parse_line(data_line, epic_index, redcap_index) ==
    With(break_into_pieces(data_line), LAMBDA pieces :
        [name         |-> Strip(Remove(pieces[1], "C_")),
         epic_value   |-> IF epic_index < Len(pieces)
                          THEN pieces[epic_index + 1] ELSE None,
         redcap_value |-> IF redcap_index < Len(pieces)
                          THEN pieces[redcap_index + 1] ELSE None])

\* REDCapReportReader.__at_end and __next_line, from row index idx: the line
\* returned (None at the end) and the row index afterwards.
at_end(contents, idx) == idx >= Len(contents) - 1

\* A __next_line that hands out the next line and leaves the row index
\* where it is.
next_line_Rereading(contents, idx) ==
    IF idx >= Len(contents) - 1
    THEN [line |-> None, row_index |-> idx]
    ELSE [line |-> contents[idx + 2], row_index |-> idx]

next_line(contents, idx) ==
    IF at_end(contents, idx)
    THEN [line |-> None, row_index |-> idx]
    ELSE [line |-> contents[idx + 2], row_index |-> idx + 1]

\* The locals of __read at its start.
NewFrame ==
    [pc               |-> "new",
     raised           |-> "",
     next_line        |-> None,
     epic_index       |-> 0,
     redcap_index     |-> 0,
     match_dict       |-> EmptyDict,
     reviewed_matches |-> <<>>,
     decision_line    |-> None,
     crc_decision     |-> None,
     crc_reason       |-> None]

\* What read_text returns: the DataFrame (its rows), or None when __read
\* found no block.
ReadResult(f) ==
    IF f.reviewed_matches = <<>> THEN None ELSE f.reviewed_matches

\* The end of __read_crc_decision and what __read does with its result
\* (lines 336-348): the row is added to reviewed_matches and the search for
\* the next header starts at the next line.
EmitRow(decision, reason) ==
    LET nl == next_line(report_contents, row_index)
        row_dict == SetKey(frame.match_dict, "CRC_DECISION",
                           CrcReview_str(decision))
    IN  /\ frame' = [frame EXCEPT
                        !.crc_decision = decision,
                        !.crc_reason = reason,
                        !.match_dict = row_dict,
                        !.reviewed_matches = Append(@, row_dict),
                        !.next_line = nl.line,
                        !.pc = "seek"]
        /\ row_index' = nl.row_index


\* ------------------------------------------------------------------------
\* SpecReader: one REDCapReportReader reads report texts, line by line
\* ------------------------------------------------------------------------

\* The rows whose summaries the reports are made of.
ReportRows ==
    << ("study_id" :> "1234" @@ "PAT_ID" :> "A56789" @@
        "MRN" :> "123" @@ "MRN_HX" :> "" @@ "mrn" :> "123" @@
        "PAT_FIRST_NAME" :> "John" @@ "PAT_LAST_NAME" :> "Smith" @@
        "first_name" :> "Jon" @@ "last_name" :> "Smith" @@ "ALIAS" :> "" @@
        "BIRTH_DATE" :> "2022-11-01" @@ "dob" :> "2022-11-01" @@
        "EMAIL_ADDRESS" :> "js@x.com" @@ "email_address" :> "j.s@x.com" @@
        "E_ADDR_CALCULATED" :> "1313 Mockingbird Lane" @@
        "R_ADDR_CALCULATED" :> "1313 Mockingbird Ln" @@
        "HOME_PHONE" :> "" @@ "WORK_PHONE" :> "800-555-1212" @@
        "Mobile_Phone" :> "" @@ "phone_number" :> "800-555-1212"),
       ("study_id" :> "07" @@ "PAT_ID" :> "B1" @@
        "MRN" :> "123" @@ "MRN_HX" :> "456" @@ "mrn" :> "456" @@
        "PAT_FIRST_NAME" :> "Alice" @@ "PAT_LAST_NAME" :> "Smith" @@
        "first_name" :> "alice" @@ "last_name" :> "smith" @@ "ALIAS" :> "" @@
        "BIRTH_DATE" :> "2022-11-01" @@ "dob" :> "2022-11-18" @@
        "EMAIL_ADDRESS" :> "js@x.com" @@ "email_address" :> "" @@
        "E_ADDR_CALCULATED" :> "4 Privet Drive" @@
        "R_ADDR_CALCULATED" :> "4 Privet Drive" @@
        "HOME_PHONE" :> "" @@ "WORK_PHONE" :> "" @@
        "Mobile_Phone" :> "NULL" @@ "phone_number" :> "" ) >>

\* The is_match summary of each of these rows.
Summary(r) ==
    With(MatchRecord(r, <<>>, <<>>),
         LAMBDA record : is_match(record, FALSE, DefaultCriteria).summary)
ReportSummaries == <<Summary(ReportRows[1]), Summary(ReportRows[2])>>

\* The column titles __read looks for (lines 288, 295 and 296), laid out as
\* __init_summary lays out its header line.
ReaderHeader ==
    FORMAT("Common Name", "Epic Val", "RedCap Val") \o "Match Quality\n"

\* A summary with its header line (the sixth line) replaced.
WithHeader(summary, header) ==
    With(ReadLines(summary), LAMBDA ls :
        Concat([k \in 1..Len(ls) |-> IF k = 6 THEN header ELSE ls[k]]))

\* The addendum after a reviewer put mark in place of the box of choice k
\* (k = 0: no mark).
MarkedBox(k, mark) ==
    "    " \o mark \o SubSeq(BoxLines[k], 6, Len(BoxLines[k]))
Reviewed(k, mark) ==
    ReviewLine
        \o Concat([j \in 1..Len(BoxLines) |->
                IF j = k THEN MarkedBox(j, mark) ELSE BoxLines[j]])
        \o "\n" \o NotesLine \o "\n"

\* The longest batch of blocks in one report.
MaxBatch == 2

\* What a reviewer may leave under a block: the addendum with one box
\* marked with any of the glyphs or with none marked, and the addendum cut
\* short (nothing, the first line, up to the Same box).
UnmarkedAddenda == {addendum, "", ReviewLine, ReviewLine \o BoxLines[1]}
OneBlockAddenda ==
    UnmarkedAddenda
        \cup {Reviewed(k, mark) : k \in 1..Len(BoxLines), mark \in MarkSet}
BatchAddenda ==
    {addendum, "", ReviewLine, Reviewed(1, "x"), Reviewed(2, "X")}

\* The reports of n blocks, as the writer lays them out: with the header
\* line of __init_summary (short = FALSE) or with the titles the reader
\* looks for (short = TRUE).
BatchSummaries(n, short) ==
    With(IF short
         THEN <<WithHeader(ReportSummaries[1], ReaderHeader),
                WithHeader(ReportSummaries[2], ReaderHeader)>>
         ELSE ReportSummaries, LAMBDA summaries :
        [i \in 1..n |-> summaries[((i - 1) % Len(summaries)) + 1]])

ReportTexts ==
    {WriteRecords(<<summary>>, <<a>>, 1) :
        summary \in {BatchSummaries(Len(ReportSummaries), short)[k] :
                        k \in DOMAIN ReportSummaries, short \in BOOLEAN},
        a \in OneBlockAddenda}
    \cup UNION {
        {WriteRecords(summaries, addenda, 1) :
            summaries \in {BatchSummaries(n, short) : short \in BOOLEAN},
            addenda \in [1..n -> BatchAddenda]} :
        n \in 2..MaxBatch}

\* Header lines that lack one of the two column titles, and reports with a
\* block under such a header: alone, and after a block the reader can read.
NoEpicHeader == FORMAT("Common Name", "RedCap Val", "") \o "Match Quality\n"
NoRedcapHeader == FORMAT("Common Name", "Epic Val", "") \o "Match Quality\n"
MalformedHeaderTexts ==
    UNION {{WriteRecords(<<WithHeader(ReportSummaries[1], header)>>,
                         <<Reviewed(1, "x")>>, 1),
            WriteRecords(<<WithHeader(ReportSummaries[2], ReaderHeader),
                           WithHeader(ReportSummaries[1], header)>>,
                         <<Reviewed(2, "x"), Reviewed(1, "x")>>, 1)} :
           header \in {NoEpicHeader, NoRedcapHeader}}

\* The arguments read_text is called with.
ReaderInputs == ReportTexts \cup MalformedHeaderTexts \cup {"", None}

InitReader ==
    /\ block_txt \in ReaderInputs
    /\ report_contents = <<>>
    /\ row_index = 0
    /\ frame = NewFrame
    /\ IdleExcept("Reader")

\* read_text(block_txt) up to the first __next_line of __read.  The reader
\* is used again once a call has ended; a call sets every field and local
\* anew, so a later call leads to the states a first call with that text
\* leads to, and the later calls modelled are those with the same text
\* and with the arguments that are refused.
ReadText ==
    /\ frame.pc \in {"new", "done"}
    /\ \E txt \in (IF frame.pc = "new" THEN {block_txt}
                   ELSE {block_txt, "", None}) :
        /\ block_txt' = txt
        /\ IF txt = None \/ txt = ""
           THEN /\ frame' = [NewFrame EXCEPT !.pc = "done", !.raised = "TypeError"]
                /\ UNCHANGED <<report_contents, row_index>>
           ELSE LET contents == ReadLines(txt)
                    nl == next_line(contents, 0)
                IN  /\ report_contents' = contents
                    /\ row_index' = nl.row_index
                    /\ frame' = [NewFrame EXCEPT !.pc = "seek",
                                                 !.next_line = nl.line]
    /\ UNCHANGED restReader

\* One turn of the loop that looks for the next header (lines 288-292).
SeekHeader ==
    /\ frame.pc = "seek"
    /\ IF frame.next_line # None /\ ~IsSubstr("Epic Val", frame.next_line)
       THEN LET nl == next_line(report_contents, row_index)
            IN  /\ frame' = [frame EXCEPT !.next_line = nl.line]
                /\ row_index' = nl.row_index
       ELSE /\ frame' = [frame EXCEPT !.pc = IF frame.next_line = None
                                            THEN "done" ELSE "columns"]
            /\ UNCHANGED row_index
    /\ UNCHANGED <<block_txt, report_contents, restReader>>

\* The columns of the header line are found, or RuntimeError (lines 295-299).
FindColumns ==
    /\ frame.pc = "columns"
    /\ IF \/ find_column_raises(frame.next_line, "Epic Val")
          \/ find_column_raises(frame.next_line, "RedCap Val")
       THEN frame' = [frame EXCEPT !.pc = "done", !.raised = "RuntimeError"]
       ELSE frame' = [frame EXCEPT
                        !.epic_index = find_column(frame.next_line, "Epic Val"),
                        !.redcap_index = find_column(frame.next_line, "RedCap Val"),
                        !.match_dict = EmptyDict,
                        !.pc = "fields"]
    /\ UNCHANGED <<block_txt, report_contents, row_index, restReader>>

\* One turn of the loop that reads the field lines of a block (lines
\* 303-329); pieces[0] of a line without pieces raises IndexError.
ReadField ==
    /\ frame.pc = "fields"
    /\ IF frame.next_line # None /\ ~IsSubstr(separator, frame.next_line)
       THEN LET nl == next_line(report_contents, row_index)
            IN  /\ row_index' = nl.row_index
                /\ IF nl.line = None \/ IsSubstr(separator, nl.line)
                   THEN frame' = [frame EXCEPT !.next_line = nl.line,
                                               !.pc = "block_end"]
                   ELSE IF break_into_pieces(nl.line) = <<>>
                   THEN frame' = [frame EXCEPT !.next_line = nl.line,
                                               !.pc = "done",
                                               !.raised = "IndexError"]
                   ELSE LET this_line == parse_line(nl.line, frame.epic_index,
                                                    frame.redcap_index)
                        IN  frame' = [frame EXCEPT
                                !.next_line = nl.line,
                                !.match_dict =
                                    SetKey(SetKey(@, "EPIC_" \o this_line.name,
                                                  convert_nulls(this_line.epic_value)),
                                           "REDCAP_" \o this_line.name,
                                           convert_nulls(this_line.redcap_value))]
       ELSE /\ frame' = [frame EXCEPT !.pc = "block_end"]
            /\ UNCHANGED row_index
    /\ UNCHANGED <<block_txt, report_contents, restReader>>

\* After the field lines (lines 331-336): the parse ends when the lines ran
\* out, else __read_crc_decision starts with its first __next_line (line 367).
BlockEnd ==
    /\ frame.pc = "block_end"
    /\ IF frame.next_line = None
       THEN /\ frame' = [frame EXCEPT !.pc = "done"]
            /\ UNCHANGED row_index
       ELSE LET nl == next_line(report_contents, row_index)
            IN  /\ frame' = [frame EXCEPT !.decision_line = nl.line,
                                          !.crc_decision = None,
                                          !.crc_reason = None,
                                          !.pc = "same"]
                /\ row_index' = nl.row_index
    /\ UNCHANGED <<block_txt, report_contents, restReader>>

\* One turn of the loop that looks for a line with "Same", and what follows
\* it (lines 369-387).
FindSame ==
    /\ frame.pc = "same"
    /\ IF frame.decision_line # None /\ ~IsSubstr("Same", frame.decision_line)
       THEN LET nl == next_line(report_contents, row_index)
            IN  /\ frame' = [frame EXCEPT !.decision_line = nl.line]
                /\ row_index' = nl.row_index
       ELSE IF frame.decision_line = None
       THEN EmitRow(None, None)
       ELSE IF IsMarked(frame.decision_line)
       THEN EmitRow("MATCH", None)
       ELSE LET nl == next_line(report_contents, row_index)
            IN  /\ frame' = [frame EXCEPT !.decision_line = nl.line,
                                          !.pc = "reason"]
                /\ row_index' = nl.row_index
    /\ UNCHANGED <<block_txt, report_contents, restReader>>

\* One turn of the loop that looks for a marked line up to the next
\* separator, and what follows it (lines 389-407).
FindReason ==
    /\ frame.pc = "reason"
    /\ IF /\ frame.decision_line # None
          /\ ~IsSubstr(separator, frame.decision_line)
          /\ ~IsMarked(frame.decision_line)
       THEN LET nl == next_line(report_contents, row_index)
            IN  /\ frame' = [frame EXCEPT !.decision_line = nl.line]
                /\ row_index' = nl.row_index
       ELSE IF frame.decision_line = None
               \/ IsSubstr(separator, frame.decision_line)
       THEN EmitRow(None, None)
       ELSE EmitRow("NO_MATCH", CrcReason_convert(frame.decision_line))
    /\ UNCHANGED <<block_txt, report_contents, restReader>>

NextReader ==
    \/ ReadText
    \/ SeekHeader
    \/ FindColumns
    \/ ReadField
    \/ BlockEnd
    \/ FindSame
    \/ FindReason

SpecReader == InitReader /\ [][NextReader]_vars

\* The rows of the DataFrame __read has built so far, and the decision
\* column of row k.
Rows_read == frame.reviewed_matches
DecisionOf(k) == Rows_read[k]["CRC_DECISION"]

\* What write lays out for the batches of is_match summaries, every box
\* left empty.
SerializedTexts == {write(BatchSummaries(n, FALSE)) : n \in 1..MaxBatch}

\* C6: parsing what the writer laid out for a batch of is_match summaries
\* (each summary, its "Record i of n" line, the addendum with empty boxes)
\* yields one record per block, each with decision NOT_SURE and reason
\* NO_INFO.
C6_RoundTripUnannotated ==
    (frame.pc = "done" /\ block_txt \in SerializedTexts) =>
        \E n \in 1..MaxBatch :
            /\ block_txt = write(BatchSummaries(n, FALSE))
            /\ frame.raised = ""
            /\ Len(Rows_read) = n
            /\ \A k \in 1..n : DecisionOf(k) = CrcReview_str("NOT_SURE")
            /\ frame.crc_reason = "NO_INFO"

\* The reason each box of the addendum names (none for the Same box).
BoxReasons == <<None, "RELATIVES", "SAME_ADDRESS", "PARENT_CHILD", "OTHER">>

\* A row has just been added on the strength of this decision line.
Classified(line) ==
    frame.pc = "seek" /\ Rows_read # <<>> /\ frame.decision_line = line

\* C7: a marked Same line yields MATCH; otherwise the first marked
\* "NOT Same: X" line yields NO_MATCH with the reason named on that line
\* (Relatives -> RELATIVES, Living at same address -> SAME_ADDRESS,
\* Parent & child -> PARENT_CHILD, Other -> OTHER), for each box of the
\* addendum and each mark.
C7_ClassifyMarkedBox ==
    \A k \in 1..Len(BoxLines), mark \in MarkSet :
        Classified(MarkedBox(k, mark)) =>
            IF k = 1
            THEN /\ frame.crc_decision = "MATCH"
                 /\ DecisionOf(Len(Rows_read)) = CrcReview_str("MATCH")
            ELSE /\ frame.crc_decision = "NO_MATCH"
                 /\ DecisionOf(Len(Rows_read)) = CrcReview_str("NO_MATCH")
                 /\ frame.crc_reason = BoxReasons[k]

\* One block under the titles the reader looks for, with no mark in its
\* review section, the section missing or the input ending before a mark.
UnmarkedTexts ==
    {WriteRecords(<<summary>>, <<a>>, 1) :
        summary \in {BatchSummaries(Len(ReportSummaries), TRUE)[k] :
                        k \in DOMAIN ReportSummaries},
        a \in UnmarkedAddenda}

\* C8: every row the parser emits has a decision that is one of MATCH,
\* NO_MATCH, NOT_SURE; a block with no mark in its review section (the
\* section missing or cut short included) yields NOT_SURE with reason
\* NO_INFO, and parsing it raises no exception.
C8_DecisionAlwaysDefined ==
    /\ \A k \in 1..Len(Rows_read) :
            DecisionOf(k) \in {CrcReview_str("MATCH"), CrcReview_str("NO_MATCH"),
                               CrcReview_str("NOT_SURE")}
    /\ (frame.pc = "done" /\ block_txt \in UnmarkedTexts) =>
            /\ frame.raised = ""
            /\ Len(Rows_read) = 1
            /\ DecisionOf(1) = CrcReview_str("NOT_SURE")
            /\ frame.crc_reason = "NO_INFO"

\* ------------------------------------------------------------------------
\* redcap_report_reader.py as redcap_match_resolver.py imports it (line 19):
\* the revision that exports DecisionReview and whose DataFrame has the
\* columns PAT_ID, study_id and DECISION.  The repository holds its caller
\* and its tests; it is modelled from the specification of the parser and
\* from what the caller and the tests use.
\* ------------------------------------------------------------------------

\* DecisionReview: the rank of each member, MATCH > NO_MATCH > NOT_SURE.
DecisionReview == [MATCH |-> 3, NO_MATCH |-> 2, NOT_SURE |-> 1]

\* DecisionReview.convert on the text of a decision
DecisionReview_convert(decision) ==
    IF decision \in {"MATCH", "NO_MATCH"} THEN decision ELSE "NOT_SURE"

\* str() of a DecisionReview member
DecisionReview_str(decision) == "DecisionReview." \o decision

\* What follows the marker a line starts with, trimmed.
ValueAfter(line, marker) == Strip(SubSeq(line, Len(marker) + 1, Len(line)))

\* The DataFrame row of the block in lines first..last: the identifying
\* fields the block carries, and the decision of the first marked box (Same
\* -> MATCH, NOT Same -> NO_MATCH), NOT_SURE when no box is marked.
BlockRow(lines, first, last) ==
    With({i \in first..last : StartsWith(lines[i], "Study ID: ")}, LAMBDA ids :
    With({i \in first..last : StartsWith(lines[i], "PAT_ID: ")}, LAMBDA pats :
    With({i \in first..last : IsSubstr("Same", lines[i]) /\ IsMarked(lines[i])},
         LAMBDA marked :
        (IF ids = {} THEN EmptyDict
         ELSE "study_id" :> ValueAfter(lines[Min(ids)], "Study ID: "))
        @@ (IF pats = {} THEN EmptyDict
            ELSE "PAT_ID" :> ValueAfter(lines[Min(pats)], "PAT_ID: "))
        @@ ("DECISION" :> DecisionReview_str(
                IF marked = {} THEN "NOT_SURE"
                ELSE IF IsSubstr("NOT Same", lines[Min(marked)]) THEN "NO_MATCH"
                ELSE "MATCH")))))

\* REDCapReportReader.read_text / read_file: the rows of the DataFrame, one
\* per block (a block opens at every other separator line); no rows stands
\* for the None returned when the text has no block.
read_text(text) ==
    With(ReadLines(text), LAMBDA lines :
    With({i \in 1..Len(lines) : StartsWith(lines[i], separator)},
         LAMBDA seps :
        <<>> \o [b \in 1..((Cardinality(seps) + 1) \div 2) |->
                    BlockRow(lines, Nth(seps, 2 * b - 1),
                             IF 2 * b + 1 <= Cardinality(seps)
                             THEN Nth(seps, 2 * b + 1) - 1 ELSE Len(lines))]))

\* isinstance(df, pandas.DataFrame), df.columns and df[column][index]
IsDataFrame(df) == df # <<>>
Columns(df) == UNION {DOMAIN df[i] : i \in 1..Len(df)}
Cell(df, column, index) ==
    IF column \in DOMAIN df[index] THEN df[index][column] ELSE None

\* ------------------------------------------------------------------------
\* redcap_match_resolver.py: REDCapMatchResolver
\* ------------------------------------------------------------------------

\* self.__dataframe_fields_list after __build_required_fields
dataframe_fields_list == <<"PAT_ID", "study_id", "DECISION">>

\* __drop_decisions_table and __drop_matches_table: DROP TABLE IF EXISTS
\* leaves no table, whatever rows it had.
drop_table(table) == <<>>

\* __create_decisions_table: the table is dropped and created anew, without
\* rows.
create_decisions_table(table) == drop_table(table)

\* REDCapMatchResolver.__init_decisions_table: table decisions afterwards,
\* given the table the database came with; a row's id is its place, and the
\* score of NOT_SURE is NULL.
init_decisions_table(table) ==
    create_decisions_table(table)
        \o <<[decision |-> "MATCH", score |-> 10],
              [decision |-> "NO_MATCH", score |-> 0],
              [decision |-> "NOT_SURE", score |-> None]>>

\* An __init_matches_table that creates the table only if the database has
\* none.
init_matches_table_Keep(table) == table

\* REDCapMatchResolver.__init_matches_table: table matches afterwards, given
\* the table the database came with.
init_matches_table(table) == drop_table(table)

\* What column study_id (declared integer) stores for a text: the number
\* when the text is one.
SqlInteger(value) == IF IsInt(value) THEN IntStr(value) ELSE value

\* The connection, and the exception sqlite3 raises when a cursor is asked
\* of a closed one ("" when it is open).
Open == "open"
Closed == "closed"
cursor_raises == IF connection = Closed THEN "ProgrammingError" ELSE ""

\* REDCapMatchResolver.__translate_decision: the id of the decision, or
\* IndexError when table decisions has no such row.
translate_decision(decision_enum) ==
    With(Remove(decision_enum, "DecisionReview."), LAMBDA payload :
    With({id \in 1..Len(decisions) : decisions[id].decision = payload},
         LAMBDA ids :
        IF ids = {} THEN [raised |-> "IndexError", id |-> 0]
        ELSE [raised |-> "", id |-> Min(ids)]))

RECURSIVE InsertRows(_, _, _)

\* A loop that logs the IntegrityError of a refused row and raises it again.
InsertRows_Raising(table, report_df, index) ==
    IF index > Len(report_df)
    THEN [matches |-> table, raised |-> "", logged |-> <<>>]
    ELSE With([PAT_ID   |-> Cell(report_df, "PAT_ID", index),
               study_id |-> Cell(report_df, "study_id", index),
               DECISION |-> Cell(report_df, "DECISION", index)], LAMBDA value :
         IF value.DECISION = None \/ value.DECISION = "None"
         THEN InsertRows(table, report_df, index + 1)
         ELSE With(translate_decision(value.DECISION), LAMBDA code :
              IF code.raised # ""
              THEN [matches |-> table, raised |-> code.raised, logged |-> <<>>]
              ELSE IF value.PAT_ID = None \/ value.study_id = None
              THEN [matches |-> table, raised |-> "IntegrityError",
                    logged |-> <<"IntegrityError">>]
              ELSE InsertRows(Append(table,
                                  [PAT_ID        |-> value.PAT_ID,
                                   study_id      |-> SqlInteger(value.study_id),
                                   decision_code |-> code.id]),
                              report_df, index + 1)))

\* The loop of __insert_report from row index on: a row without a decision
\* is skipped; a row the table refuses (a NULL identifying field) raises
\* IntegrityError, which is logged and not raised again.  The result names
\* the errors logged that way.
InsertRows(table, report_df, index) ==
    IF index > Len(report_df)
    THEN [matches |-> table, raised |-> "", logged |-> <<>>]
    ELSE With([PAT_ID   |-> Cell(report_df, "PAT_ID", index),
               study_id |-> Cell(report_df, "study_id", index),
               DECISION |-> Cell(report_df, "DECISION", index)], LAMBDA value :
         IF value.DECISION = None \/ value.DECISION = "None"
         THEN InsertRows(table, report_df, index + 1)
         ELSE With(translate_decision(value.DECISION), LAMBDA code :
              IF code.raised # ""
              THEN [matches |-> table, raised |-> code.raised, logged |-> <<>>]
              ELSE IF value.PAT_ID = None \/ value.study_id = None
              THEN With(InsertRows(table, report_df, index + 1), LAMBDA rest :
                        [rest EXCEPT !.logged = <<"IntegrityError">> \o @])
              ELSE InsertRows(Append(table,
                                  [PAT_ID        |-> value.PAT_ID,
                                   study_id      |-> SqlInteger(value.study_id),
                                   decision_code |-> code.id]),
                              report_df, index + 1)))

\* An __insert_report that stores every decision as NOT_SURE.
insert_report_NotSure(table, report_df) ==
    IF cursor_raises # ""
    THEN [matches |-> table, raised |-> cursor_raises, logged |-> <<>>]
    ELSE With(InsertRows(table, report_df, 1), LAMBDA out :
        [matches |-> [i \in 1..Len(out.matches) |->
                        IF i <= Len(table) THEN out.matches[i]
                        ELSE [out.matches[i] EXCEPT !.decision_code = Len(decisions)]],
         raised  |-> out.raised,
         logged  |-> out.logged])

\* REDCapMatchResolver.__insert_report
insert_report(table, report_df) ==
    IF cursor_raises # ""
    THEN [matches |-> table, raised |-> cursor_raises, logged |-> <<>>]
    ELSE With(report_df, LAMBDA df : InsertRows(table, df, 1))

\* The query of lookup_potential_match: the decision of every row of
\* matches with these identifying fields, in the order of the ids.
SelectDecisions(table, pat_id, study_id) ==
    With(SelectSeq(table, LAMBDA m : /\ m.PAT_ID = pat_id
                                     /\ m.study_id = SqlInteger(study_id)
                                     /\ m.decision_code \in 1..Len(decisions)),
         LAMBDA hits :
        [i \in 1..Len(hits) |-> decisions[hits[i].decision_code].decision])

\* A lookup that goes with the first hit.
lookup_potential_match_FirstHit(table, match_block) ==
    IF match_block = None \/ match_block = ""
    THEN [value |-> None, raised |-> "TypeError"]
    ELSE With(read_text(match_block), LAMBDA match_df :
         IF ~IsDataFrame(match_df)
            \/ ~(Members(dataframe_fields_list) \subseteq Columns(match_df))
         THEN [value |-> None, raised |-> "RuntimeError"]
         ELSE IF cursor_raises # ""
         THEN [value |-> None, raised |-> cursor_raises]
         ELSE With(SelectDecisions(table, Cell(match_df, "PAT_ID", 1),
                                   Cell(match_df, "study_id", 1)), LAMBDA rows :
              IF rows # <<>>
              THEN [value |-> DecisionReview_convert(rows[1]), raised |-> ""]
              ELSE [value |-> "NOT_SURE", raised |-> ""]))

\* REDCapMatchResolver.lookup_potential_match: the DecisionReview returned,
\* or the exception raised.
lookup_potential_match(table, match_block) ==
    IF match_block = None \/ match_block = ""
    THEN [value |-> None, raised |-> "TypeError"]
    ELSE With(read_text(match_block), LAMBDA match_df :
         IF ~IsDataFrame(match_df)
            \/ ~(Members(dataframe_fields_list) \subseteq Columns(match_df))
         THEN [value |-> None, raised |-> "RuntimeError"]
         ELSE IF cursor_raises # ""
         THEN [value |-> None, raised |-> cursor_raises]
         ELSE With(SelectDecisions(table, Cell(match_df, "PAT_ID", 1),
                                   Cell(match_df, "study_id", 1)), LAMBDA rows :
              IF rows # <<>>
              THEN [value |-> CHOOSE d \in {DecisionReview_convert(rows[i]) :
                                               i \in 1..Len(rows)} :
                                \A i \in 1..Len(rows) :
                                    DecisionReview[d] >=
                                        DecisionReview[DecisionReview_convert(rows[i])],
                    raised |-> ""]
              ELSE [value |-> "NOT_SURE", raised |-> ""]))

\* REDCapReportReader.read_file: the DataFrame of the text of a report
\* file, which the file carries along (frame) so that it is parsed once.
read_file(report_file_obj) == report_file_obj.frame

\* The loop of read_reports from file i on: the table afterwards, the
\* exception raised, and how many files went through __insert_report.
RECURSIVE ReadFiles(_, _, _)
ReadFiles(table, files, i) ==
    IF i > Len(files)
    THEN [matches |-> table, raised |-> "", read |-> i - 1, logged |-> <<>>]
    ELSE With(read_file(files[i]), LAMBDA report_df :
         IF ~IsDataFrame(report_df)
         THEN [matches |-> table, raised |-> "TypeError", read |-> i - 1,
               logged |-> <<>>]
         ELSE With(insert_report(table, report_df), LAMBDA out :
              IF out.raised # ""
              THEN [matches |-> out.matches, raised |-> out.raised,
                    read |-> i - 1, logged |-> out.logged]
              ELSE With(ReadFiles(out.matches, files, i + 1), LAMBDA rest :
                        [rest EXCEPT !.logged = out.logged \o @])))

\* REDCapMatchResolver.read_reports on a folder in which glob finds these
\* report files.
read_reports(table, import_folder, files) ==
    IF import_folder = None \/ import_folder = ""
    THEN [matches |-> table, raised |-> "TypeError", read |-> 0, logged |-> <<>>]
    ELSE With(files, LAMBDA found : ReadFiles(table, found, 1))

\* A string or None, and a tuple of a number or bool and a string, as Python
\* prints them.
StrRepr(value) == IF value = None THEN "None" ELSE "'" \o value \o "'"
TupleRepr(first, second) == "(" \o first \o ", " \o StrRepr(second) \o ")"

\* REDCapMatchResolver.report_wobblers at time now: what it returns or
\* raises, and the files afterwards.
report_wobblers(files, pending, new_reports_directory, now) ==
    IF new_reports_directory = None
    THEN [value |-> None, raised |-> "TypeError", files |-> files]
    ELSE With(JoinPath(new_reports_directory, now \o "_patient_report.txt"),
              LAMBDA filename :
         IF Len(pending) > 0
         THEN With(write_report(files, pending, filename), LAMBDA package :
              [value  |-> TupleRepr(NatStr(Len(pending)),
                                    IF package.success THEN package.filename
                                    ELSE ""),
               raised |-> "",
               files  |-> package.files])
         ELSE [value  |-> TupleRepr(NatStr(Len(pending)), ""),
               raised |-> "",
               files  |-> files])

\* An add_possible_wobbler that asks for a review whatever the store holds.
add_possible_wobbler_Always(table, pending, match_summary) ==
    With(lookup_potential_match(table, match_summary), LAMBDA previous_decision :
        IF previous_decision.raised # ""
        THEN [reports |-> pending, value |-> None,
              raised |-> previous_decision.raised]
        ELSE [reports |-> add_match(pending, match_summary), value |-> True,
              raised |-> ""])

\* REDCapMatchResolver.add_possible_wobbler: the writer's list afterwards
\* and what the call returns or raises.
add_possible_wobbler(table, pending, match_summary) ==
    With(lookup_potential_match(table, match_summary), LAMBDA previous_decision :
        IF previous_decision.raised # ""
        THEN [reports |-> pending, value |-> None,
              raised |-> previous_decision.raised]
        ELSE IF previous_decision.value = "NOT_SURE"
        THEN [reports |-> add_match(pending, match_summary), value |-> True,
              raised |-> ""]
        ELSE [reports |-> pending, value |-> True, raised |-> ""])

\* ------------------------------------------------------------------------
\* Spec: one REDCapMatchResolver, from its construction on
\* ------------------------------------------------------------------------

\* The most rows of table matches and the most blocks the writer holds.
MaxRows == 3
MaxPending == 1

\* A review names a pair (a row of ReportRows) and the box the reviewer
\* marked (0: none); the mark differs from review to review.
MarkOf(review) ==
    CharAt(positive_marks,
           ((review.row + 3 * review.box) % Len(positive_marks)) + 1)

\* A report file the writer wrote for these pairs, as the reviewer left it.
FileOf(reviews, text) ==
    [reviews |-> reviews, text |-> text, frame |-> read_text(text)]
ReviewedFile(reviews) ==
    FileOf(reviews,
           WriteRecords(
               [i \in 1..Len(reviews) |-> ReportSummaries[reviews[i].row]],
               [i \in 1..Len(reviews) |->
                   IF reviews[i].box = 0 THEN addendum
                   ELSE Reviewed(reviews[i].box, MarkOf(reviews[i]))],
               1))

\* A block that lost its PAT_ID line, a reviewed file of that block, and a
\* file without text.
NoPatIdBlock == Remove(ReportSummaries[1], "PAT_ID: A56789\n")
NoPatIdFile ==
    FileOf(<<>>, WriteRecords(<<NoPatIdBlock>>, <<Reviewed(1, "x")>>, 1))
EmptyFile == FileOf(<<>>, "")

Review(r, b) == [row |-> r, box |-> b]
ReportFiles ==
    {ReviewedFile(<<Review(1, b)>>) : b \in 0..2}
        \cup {ReviewedFile(<<Review(2, 5), Review(1, 1)>>), NoPatIdFile}

\* The folders read_reports is called with: what glob finds in them.
ImportFolders ==
    {[name |-> "reports", files |-> <<f>>] : f \in ReportFiles}
        \cup {[name |-> "empty_folder", files |-> <<>>],
              [name |-> None, files |-> <<>>],
              [name |-> "two", files |-> <<ReviewedFile(<<Review(2, 1)>>),
                                           EmptyFile,
                                           ReviewedFile(<<Review(1, 1)>>)>>]}

\* The blocks lookup_potential_match and add_possible_wobbler are called
\* with.
LookupBlocks == Members(ReportSummaries) \cup {NoPatIdBlock, None}
WobblerBlocks == Members(ReportSummaries)

\* The connection __init__ is given, by what its database holds: no rows
\* of matches, or rows an earlier resolver inserted.
NewDatabase == "connection to a database without matches"
UsedDatabase == "connection to a database with matches"

Init ==
    /\ decisions = init_decisions_table(<<>>)
    /\ matches = init_matches_table(<<>>)
    /\ reports = <<>>
    /\ report_files = EmptyDict
    /\ imported = {}
    /\ connection = Open
    /\ returned = [op |-> "__init__", arg |-> NewDatabase, value |-> None,
                  raised |-> ""]
    /\ IdleExcept("Resolver")

\* REDCapMatchResolver(log, connection) once more, on an open connection
\* to the same database (the one in use, or a new one when that was
\* closed): a new reader and writer, and both tables built anew.
Construct ==
    /\ connection' = Open
    /\ decisions' = init_decisions_table(decisions)
    /\ matches' = init_matches_table(matches)
    /\ reports' = <<>>
    /\ imported' = {}
    /\ returned' = [op |-> "__init__",
                    arg |-> IF matches = <<>> THEN NewDatabase ELSE UsedDatabase,
                    value |-> None, raised |-> ""]
    /\ UNCHANGED <<report_files, restResolver>>

\* read_reports(import_folder)
ReadReports ==
    /\ \E folder \in ImportFolders :
       \E out \in {read_reports(matches, folder.name, folder.files)} :
            /\ Len(out.matches) <= MaxRows
            /\ matches' = out.matches
            /\ imported' = imported \cup
                    UNION {Members(folder.files[i].reviews) : i \in 1..out.read}
            /\ returned' = [op |-> "read_reports", arg |-> folder.name,
                            value |-> IF out.raised = "" THEN True ELSE None,
                            raised |-> out.raised, logged |-> out.logged]
    /\ UNCHANGED <<connection, decisions, reports, report_files, restResolver>>

\* lookup_potential_match(match_block)
LookupPotentialMatch ==
    /\ \E match_block \in LookupBlocks :
       \E out \in {lookup_potential_match(matches, match_block)} :
            returned' = [op |-> "lookup_potential_match", arg |-> match_block,
                         value |-> out.value, raised |-> out.raised]
    /\ UNCHANGED <<connection, decisions, matches, reports, report_files, imported,
                   restResolver>>

\* add_possible_wobbler(match_summary)
AddPossibleWobbler ==
    /\ \E match_summary \in WobblerBlocks :
       \E out \in {add_possible_wobbler(matches, reports, match_summary)} :
            /\ Len(out.reports) <= MaxPending
            /\ reports' = out.reports
            /\ returned' = [op |-> "add_possible_wobbler", arg |-> match_summary,
                            value |-> out.value, raised |-> out.raised]
    /\ UNCHANGED <<connection, decisions, matches, report_files, imported, restResolver>>

Next ==
    \/ Construct
    \/ ReadReports
    \/ LookupPotentialMatch
    \/ AddPossibleWobbler

Spec == Init /\ [][Next]_vars

\* The identifying fields of a pair as table matches stores them, the rows
\* of matches that carry them, and the highest-ranked decision among these.
KeyOf(r) ==
    [PAT_ID   |-> ReportRows[r]["PAT_ID"],
     study_id |-> IntStr(ReportRows[r]["study_id"])]
StoredFor(r) ==
    {i \in 1..Len(matches) : /\ matches[i].PAT_ID = KeyOf(r).PAT_ID
                             /\ matches[i].study_id = KeyOf(r).study_id}
StoredDecisions(r) == {decisions[matches[i].decision_code].decision : i \in StoredFor(r)}
HighestStored(r) ==
    IF "MATCH" \in StoredDecisions(r) THEN "MATCH"
    ELSE IF "NO_MATCH" \in StoredDecisions(r) THEN "NO_MATCH"
    ELSE "NOT_SURE"
LookedUp(r) ==
    /\ returned.op = "lookup_potential_match"
    /\ returned.arg = ReportSummaries[r]

KeyLines(marker) ==
    SelectSeq(report_contents, LAMBDA line : StartsWith(line, marker))

\* C11: every record the parser returns carries study_id and PAT_ID, equal
\* to the values on the 'Study ID:' and 'PAT_ID:' lines of its block.
C11_RecordCarriesKeys ==
    (frame.pc = "done" /\ frame.raised = "") =>
        \A k \in 1..Len(Rows_read) :
            /\ {"study_id", "PAT_ID"} \subseteq DOMAIN Rows_read[k]
            /\ Rows_read[k]["study_id"] =
                    ValueAfter(KeyLines("Study ID: ")[k], "Study ID: ")
            /\ Rows_read[k]["PAT_ID"] =
                    ValueAfter(KeyLines("PAT_ID: ")[k], "PAT_ID: ")

MaxQueue == 2
MaxWritten == 4

\* What add_match, write and report_wobblers are called with, the seconds
\* at which report_wobblers is called, and what a report file held before.
WriterBlocks == Members(ReportSummaries) \cup {None, ""}
WriteFilenames == {None, "/tmp/test_filename.txt"}
ReportDirectories == {"/data/reports", "reports", None}
Timestamps == <<"20221101_120000", "20221101_120001">>
EarlierText == "(an earlier report)\n"
DefaultFilename ==
    JoinPath(JoinPath(PatientDataDirectory, "patient_reports"),
             "patient_report.txt")

\* The text of a file, and the number of records in the files.
FileText(files, filename) ==
    IF filename \in DOMAIN files THEN Concat(files[filename]) ELSE ""
Written(files) ==
    Cardinality(UNION {{<<f, i>> : i \in 1..Len(files[f])} : f \in DOMAIN files})

InitWriter ==
    /\ decisions = init_decisions_table(<<>>)
    /\ matches = init_matches_table(<<>>)
    /\ reports = <<>>
    /\ report_files \in {EmptyDict, DefaultFilename :> <<EarlierText>>}
    /\ imported = {}
    /\ connection = Open
    /\ returned = [op |-> "__init__", arg |-> NewDatabase, value |-> None,
                  raised |-> ""]
    /\ IdleExcept("Resolver")

\* REDCapReportWriter.add_match(match)
AddMatch ==
    /\ \E match \in WriterBlocks :
       \E out \in {add_match(reports, match)} :
            /\ Len(out) <= MaxQueue
            /\ reports' = out
            /\ returned' = [op |-> "add_match", arg |-> match,
                            value |-> None, raised |-> ""]
    /\ UNCHANGED <<connection, decisions, matches, report_files, imported, restResolver>>

\* REDCapReportWriter.write(report_filename)
WriteReport ==
    /\ \E report_filename \in WriteFilenames :
       \E out \in {write_report(report_files, reports, report_filename)} :
            /\ Written(out.files) <= MaxWritten
            /\ report_files' = out.files
            /\ returned' = [op |-> "write", arg |-> report_filename,
                            value |-> TupleRepr(IF out.success THEN "True"
                                                ELSE "False", out.filename),
                            raised |-> ""]
    /\ UNCHANGED <<connection, decisions, matches, reports, imported, restResolver>>

\* REDCapMatchResolver.report_wobblers(new_reports_directory), called at a
\* second no earlier than that of any report it has named.
ReportWobblers ==
    /\ \E new_reports_directory \in ReportDirectories :
       \E k \in DOMAIN Timestamps :
       \E out \in {report_wobblers(report_files, reports,
                                   new_reports_directory, Timestamps[k])} :
            /\ \A j \in (k + 1)..Len(Timestamps), f \in DOMAIN report_files :
                    ~IsSubstr(Timestamps[j], f)
            /\ Written(out.files) <= MaxWritten
            /\ report_files' = out.files
            /\ returned' = [op |-> "report_wobblers",
                            arg |-> new_reports_directory,
                            value |-> out.value, raised |-> out.raised]
    /\ UNCHANGED <<connection, decisions, matches, reports, imported, restResolver>>

NextWriter ==
    \/ AddMatch
    \/ WriteReport
    \/ ReportWobblers

SpecWriter == InitWriter /\ [][NextWriter]_vars

\* What a report of the pending blocks reads: every block, in the order the
\* blocks were added, followed by its 'Record i of n' line and the addendum.
ExpectedReport(pending) ==
    Concat([i \in 1..Len(pending) |->
                pending[i]
                    \o "Record " \o NatStr(i) \o " of " \o NatStr(Len(pending))
                    \o "\n" \o addendum])

\* C12: a call of write or report_wobblers with n >= 1 pending blocks adds
\* to the end of one file, the one it names, block i, 'Record i of n' and
\* the addendum for i = 1..n in the order the blocks were added, and leaves
\* what that file held before and every other file as they were; with
\* nothing pending no file is created or changed and report_wobblers
\* returns (0, "").
C12_WriteAppends ==
    [][(returned'.op \in {"write", "report_wobblers"} /\ returned'.raised = "")
        => IF Len(reports) >= 1
           THEN \E f \in DOMAIN report_files' :
                   /\ FileText(report_files', f) =
                        FileText(report_files, f) \o ExpectedReport(reports)
                   /\ DOMAIN report_files' = DOMAIN report_files \cup {f}
                   /\ \A g \in DOMAIN report_files \ {f} :
                        report_files'[g] = report_files[g]
                   /\ returned'.value =
                        TupleRepr(IF returned'.op = "write" THEN "True"
                                  ELSE NatStr(Len(reports)), f)
           ELSE /\ report_files' = report_files
                /\ returned'.op = "report_wobblers" =>
                        returned'.value = "(0, '')"]_vars

C12_Witness ==
    /\ returned.op = "write"
    /\ Len(reports) = 2
    /\ DefaultFilename \in DOMAIN report_files
    /\ Len(report_files[DefaultFilename]) = 3
    /\ report_files[DefaultFilename][1] = EarlierText


\* ------------------------------------------------------------------------
\* SpecRevise: a MatchRecord is built from arguments of any class, revised
\* by aliases and by MRN histories, asked is_match and read
\* ------------------------------------------------------------------------

\* A revision is handed at most MaxSupplied values.
MaxSupplied == 1

ReviseIdentityRows ==
    { ("study_id" :> "1234" @@ "PAT_ID" :> "A56789"),
      ("study_id" :> "1234"),
      ("PAT_ID" :> "A56789") }

ReviseMrnRows ==
    { ("MRN" :> "123" @@ "MRN_HX" :> "" @@ "mrn" :> "123"),
      ("MRN" :> "123" @@ "MRN_HX" :> "" @@ "mrn" :> "456") }

ReviseNameRows ==
    { ("PAT_FIRST_NAME" :> "Alice" @@ "PAT_LAST_NAME" :> "Smith" @@
       "first_name" :> "Alan" @@ "last_name" :> "Smyth" @@ "ALIAS" :> ""),
      ("PAT_FIRST_NAME" :> "John" @@ "PAT_LAST_NAME" :> "Smith" @@
       "first_name" :> "Jon" @@ "last_name" :> "Smith" @@ "ALIAS" :> "") }

ReviseOtherRows ==
    { d @@ e @@ f @@ g :
        d \in {("BIRTH_DATE" :> "2022-11-01" @@ "dob" :> "2022-11-01")},
        e \in {("EMAIL_ADDRESS" :> "js@x.com" @@ "email_address" :> "")},
        f \in {("E_ADDR_CALCULATED" :> "4 Privet Drive" @@
                "R_ADDR_CALCULATED" :> "4 Privet Drive")},
        g \in {("HOME_PHONE" :> "800-555-1212" @@ "WORK_PHONE" :> "" @@
                "Mobile_Phone" :> "" @@ "phone_number" :> "(800) 555-1212")} }

ReviseRows ==
    { a @@ b @@ c @@ d :
        a \in ReviseIdentityRows, b \in ReviseMrnRows, c \in ReviseNameRows,
        d \in ReviseOtherRows }

\* The rows and the facility lists the constructor is handed: also None and
\* a number.
ConstructorRows == ReviseRows \cup {NotSeries("NoneType"), NotSeries("int")}
ConstructorAddressLists == {<<"4 Privet Drive">>, NotList("NoneType")}
ConstructorPhoneLists == {<<"800-555-1212">>, NotList("NoneType")}

AliasValues == {"Smith,Alice", "Smyth,Alan Baker", "Jones,Al"}
MrnHxValues == {"Z54321", "456", "789"}

\* The lists of at most n of the values.
ListsUpTo(values, n) ==
    UNION {[1..k -> values] : k \in 0..n}
AliasLists == ListsUpTo(AliasValues, MaxSupplied)
MrnHxLists == ListsUpTo(MrnHxValues, MaxSupplied)

InitRevise ==
    /\ row \in ConstructorRows
    /\ facility_addresses \in ConstructorAddressLists
    /\ facility_phone_numbers \in ConstructorPhoneLists
    /\ match_record = NoObject
    /\ exact = Idle /\ criteria = Idle /\ match_tuple = NoObject
    /\ record_call = NoObject
    /\ IdleExcept("Record")

\* match_record.use_aliases(aliases)
UseAliases ==
    /\ match_record # NoObject
    /\ \E aliases \in AliasLists :
        /\ match_record' = use_aliases(match_record, aliases)
        /\ record_call' = Called("use_aliases", aliases, "", None)
    /\ UNCHANGED <<row, facility_addresses, facility_phone_numbers, exact,
                   criteria, match_tuple, restRecord>>

\* match_record.use_mrn_hx(mrn_hx)
UseMrnHx ==
    /\ match_record # NoObject
    /\ \E mrn_hx \in MrnHxLists :
        /\ match_record' = use_mrn_hx(match_record, mrn_hx)
        /\ record_call' = Called("use_mrn_hx", mrn_hx, "", None)
    /\ UNCHANGED <<row, facility_addresses, facility_phone_numbers, exact,
                   criteria, match_tuple, restRecord>>

\* match_record.score()
Score ==
    /\ match_record # NoObject
    /\ \E out \in {MatchRecord_score(match_record)} :
        record_call' = Called("score", <<>>, out.raised, out.value)
    /\ UNCHANGED <<row, facility_addresses, facility_phone_numbers,
                   match_record, exact, criteria, match_tuple, restRecord>>

\* match_record.pat_id()
PatId ==
    /\ match_record # NoObject
    /\ \E out \in {MatchRecord_pat_id(match_record)} :
        record_call' = Called("pat_id", <<>>, out.raised, out.value)
    /\ UNCHANGED <<row, facility_addresses, facility_phone_numbers,
                   match_record, exact, criteria, match_tuple, restRecord>>

\* match_record.study_id()
StudyId ==
    /\ match_record # NoObject
    /\ \E out \in {MatchRecord_study_id(match_record)} :
        record_call' = Called("study_id", <<>>, out.raised, out.value)
    /\ UNCHANGED <<row, facility_addresses, facility_phone_numbers,
                   match_record, exact, criteria, match_tuple, restRecord>>

\* match_record.redcap_update()
RedcapUpdate ==
    /\ match_record # NoObject
    /\ \E out \in {MatchRecord_redcap_update(match_record)} :
        record_call' = Called("redcap_update", <<>>, out.raised, out.value)
    /\ UNCHANGED <<row, facility_addresses, facility_phone_numbers,
                   match_record, exact, criteria, match_tuple, restRecord>>

\* MatchRecord(row, facility_addresses, facility_phone_numbers) once more,
\* on the arguments of the first construction
BuildAgain ==
    /\ match_record # NoObject
    /\ \E out \in {new_MatchRecord(row, facility_addresses,
                                    facility_phone_numbers)} :
        /\ match_record' = out.self
        /\ record_call' = Called("__init__", <<>>, out.raised, None)
    /\ UNCHANGED <<row, facility_addresses, facility_phone_numbers, exact,
                   criteria, match_tuple, restRecord>>

NextRevise ==
    \/ NewMatchRecord
    \/ BuildAgain
    \/ IsMatch
    \/ UseAliases
    \/ UseMrnHx
    \/ Score
    \/ PatId
    \/ StudyId
    \/ RedcapUpdate

SpecRevise == InitRevise /\ [][NextRevise]_vars

\* The methods that revise a MatchRecord, and the field each one revises.
Revisions == {"use_aliases", "use_mrn_hx"}
RevisedField(op) ==
    IF op = "use_aliases" THEN "C_NAME_CALCULATED" ELSE "C_MRN_CALCULATED"

\* Whether the REDCap value of a field matches one of the values of a list:
\* the comparison of the two, trimmed, rates above MATCHED_NULL.
SuppliedMatches(values, field) ==
    \E k \in 1..Len(values) :
        QualityValue(Evaluate(Strip(values[k]), field.redcap_value, <<>>)) > 0

Observable(obj) ==
    [score    |-> obj.score,
     quality  |-> [name \in DOMAIN obj.record |-> obj.record[name].match_quality],
     study_id |-> obj.study_id,
     pat_id   |-> obj.pat_id]

\* C16: after its construction a MatchRecord keeps its score, the
\* classification of every field and its identifying fields through every
\* call that is not a revision: is_match with any exact, criteria, aliases
\* and mrn_hx, score, pat_id, study_id and redcap_update.  (A call of the
\* constructor makes another object.)
C16_OnlyRevisionMutates ==
    [][(/\ match_record # NoObject
        /\ record_call'.op \notin Revisions \cup {"__init__"}) =>
            Observable(match_record') = Observable(match_record)]_vars

\* C16 witness: is_match has returned on a record whose names differ and
\* whose REDCap name is among the aliases is_match is handed; the name is
\* still rated MATCHED_NOPE.
C16_Witness ==
    /\ match_record # NoObject
    /\ record_call.op = "is_match" /\ record_call.raised = ""
    /\ \E aliases \in AliasArguments :
            SuppliedMatches(aliases, match_record.record["C_NAME_CALCULATED"])
    /\ match_record.record["C_NAME_CALCULATED"].match_quality = "MATCHED_NOPE"

\* The constructor has just been called.
Constructing == record_call # NoObject /\ record_call.op = "__init__"

\* The arguments of the constructor break its contract: the row is no
\* pandas.Series, a facility list is no list, or the row lacks study_id or
\* PAT_ID.
ContractBroken ==
    \/ ~IsSeries(row)
    \/ ~IsList(facility_addresses)
    \/ ~IsList(facility_phone_numbers)
    \/ ~({"study_id", "PAT_ID"} \subseteq DOMAIN row)

\* C18, as stated: a row that is no structured row, a facility address or
\* phone list that is no list, or a row that lacks study_id or PAT_ID makes
\* the construction raise an error and leave no scored record.
C18_BrokenContractRaises ==
    (Constructing /\ ContractBroken) =>
        (record_call.raised # "" /\ match_record = NoObject)

\* C18, amended: the construction raises TypeError, and leaves no record,
\* exactly when the row is no pandas.Series.  A facility list that is no
\* list is replaced by the empty list, so that nothing is ignored for it,
\* and a row that lacks study_id or PAT_ID yields a scored record whose
\* field is unset: the error is raised by is_match, as AttributeError.
C18_OnlyTheRowIsChecked ==
    /\ Constructing =>
        IF ~IsSeries(row)
        THEN record_call.raised = "TypeError" /\ match_record = NoObject
        ELSE /\ record_call.raised = "" /\ match_record # NoObject
             /\ match_record.score \in 0..Len(SCORE_FIELDS)
             /\ ~IsList(facility_addresses) =>
                    match_record.record["C_ADDR_CALCULATED"].match_quality
                        = "MATCHED_EXACT"
             /\ ~IsList(facility_phone_numbers) =>
                    match_record.record["C_PHONE_CALCULATED"].match_quality
                        # "IGNORED"
             /\ "study_id" \notin DOMAIN row => match_record.study_id = Unset
             /\ "PAT_ID" \notin DOMAIN row => match_record.pat_id = Unset
    /\ (/\ match_record # NoObject /\ match_tuple # NoObject
        /\ Unset \in {match_record.study_id, match_record.pat_id})
            => match_tuple.raised = "AttributeError"

\* C18 witness: a record was constructed and scored from a row without
\* PAT_ID and a facility address list that is None.
C18_Witness ==
    /\ Constructing /\ record_call.raised = ""
    /\ "PAT_ID" \notin DOMAIN row
    /\ facility_addresses = NotList("NoneType")
    /\ match_record # NoObject
    /\ match_record.score >= BonusScore

\* The ignore-list of a field of the record: the facility addresses for the
\* address, the cleaned facility phone numbers for the phone, none for the
\* other fields.
IgnoreListOf(name) ==
    CASE name = "C_ADDR_CALCULATED"  -> facility_addresses
      [] name = "C_PHONE_CALCULATED" -> CleanAll(facility_phone_numbers)
      [] OTHER -> <<>>

ConstructOnClosed ==
    /\ connection = Closed
    /\ returned' = [op |-> "__init__", arg |-> UsedDatabase,
                    value |-> None, raised |-> cursor_raises]
    /\ UNCHANGED <<connection, decisions, matches, reports, report_files,
                   imported, restResolver>>

\* The owner of the connection closes it.
CloseConnection ==
    /\ connection = Open
    /\ connection' = Closed
    /\ returned' = [op |-> "close", arg |-> None, value |-> None, raised |-> ""]
    /\ UNCHANGED <<decisions, matches, reports, report_files, imported,
                   restResolver>>

NextStorage ==
    \/ Next
    \/ ConstructOnClosed
    \/ CloseConnection

SpecStorage == Init /\ [][NextStorage]_vars

\* The errors of sqlite3.
DatabaseErrors ==
    {"IntegrityError", "InternalError", "OperationalError", "ProgrammingError"}

\* The call came to the database: a construction, a read_reports of a
\* folder with a readable report, or a lookup of a block that has the
\* identifying fields.
ReachedDatabase(call) ==
    \/ call.op = "__init__"
    \/ call.op = "read_reports" /\ call.arg \in {"reports", "two"}
    \/ /\ call.op \in {"lookup_potential_match", "add_possible_wobbler"}
       /\ call.arg \in Members(ReportSummaries)

\* The database raised an error in the call: the connection was closed, or
\* the table refused a row.
DatabaseRaised(call, conn) ==
    \/ ReachedDatabase(call) /\ conn = Closed
    \/ call.op = "read_reports" /\ call.logged # <<>>

Grants(e, r) ==
    {q \in {"MATCHED_EXACT", "MATCHED_CASE_INSENSITIVE", "MATCHED_ALPHA_NUM",
            "MATCHED_SUBSTRING"} :
        CASE q = "MATCHED_EXACT" -> e = r
          [] q = "MATCHED_CASE_INSENSITIVE" -> Lower(e) = Lower(r)
          [] q = "MATCHED_ALPHA_NUM" -> as_alphanum(e) = as_alphanum(r)
          [] q = "MATCHED_SUBSTRING" ->
                /\ Len(e) >= 4 /\ Len(r) >= 4
                /\ \/ IsSubstr(Lower(e), Lower(r))
                   \/ IsSubstr(Lower(r), Lower(e))}

\* A rating is worse than the rating a rule grants when it is not good
\* enough (rank <= 0) or is the rating of a looser rule (a higher rank).
RatedWorse(q, granted) ==
    QualityValue(q) <= 0 \/ QualityValue(q) > QualityValue(granted)

\* C20, as stated: for every pair of values and every ignore-list the
\* rating of the pair is not worse than the rating any of the rules would
\* grant it; a pair equal after case-folding is not rated worse than
\* CASE_INSENSITIVE.
C20_NeverWorseThanALooserRule ==
    match_variable # NoObject =>
        \A granted \in Grants(Strip(epic_value), Strip(redcap_value)) :
            ~RatedWorse(match_variable.match_quality, granted)

\* C20, amended: the rating of a pair of values that are both not empty
\* and neither in the ignore-list is not worse than the rating any of the
\* rules would grant it; a pair with an empty value or a value in the
\* ignore-list is rated NULL, IGNORED or NOPE, whatever the rules for equal
\* values would grant.
C20_NeverWorseWhenCompared ==
    match_variable # NoObject =>
        LET e == Strip(epic_value)
            r == Strip(redcap_value)
            q == match_variable.match_quality
        IN  IF e # "" /\ r # "" /\ {e, r} \cap Members(ignore_list) = {}
            THEN \A granted \in Grants(e, r) : ~RatedWorse(q, granted)
            ELSE q \in {"MATCHED_NULL", "IGNORED", "MATCHED_NOPE"}

\* C20 witness: a pair equal after case-folding and long enough for the
\* substring rule is rated CASE_INSENSITIVE under an ignore-list that names
\* neither value.
C20_Witness ==
    /\ match_variable # NoObject
    /\ ignore_list # <<>>
    /\ Len(match_variable.epic_value) >= 4
    /\ match_variable.epic_value # match_variable.redcap_value
    /\ Lower(match_variable.epic_value) = Lower(match_variable.redcap_value)
    /\ match_variable.match_quality = "MATCHED_CASE_INSENSITIVE"


\* ------------------------------------------------------------------------
\* SpecScore: MatchRecords built from rows that differ field by field
\* ------------------------------------------------------------------------

ScoreIdentityRows == { ("study_id" :> "1234" @@ "PAT_ID" :> "A56789") }

\* MRN_HX holds the earlier MRNs of the patient: none, one, or several in
\* one string.
ScoreMrnRows ==
    { ("MRN" :> "123" @@ "MRN_HX" :> "" @@ "mrn" :> "123"),
      ("MRN" :> "123" @@ "MRN_HX" :> "456" @@ "mrn" :> "123"),
      ("MRN" :> "123" @@ "MRN_HX" :> "456" @@ "mrn" :> "456"),
      ("MRN" :> "123" @@ "MRN_HX" :> "77,456" @@ "mrn" :> "456"),
      ("MRN" :> "A12345" @@ "MRN_HX" :> "Z54321,B23456" @@ "mrn" :> "B23456"),
      ("MRN" :> "123" @@ "MRN_HX" :> "456" @@ "mrn" :> "789") }

ScoreNameRows ==
    { ("PAT_FIRST_NAME" :> "Alice" @@ "PAT_LAST_NAME" :> "Smith" @@
       "first_name" :> "alice" @@ "last_name" :> "smith" @@ "ALIAS" :> ""),
      ("PAT_FIRST_NAME" :> "John" @@ "PAT_LAST_NAME" :> "Smith" @@
       "first_name" :> "Jon" @@ "last_name" :> "Smith" @@ "ALIAS" :> "") }

ScoreDobRows ==
    { ("BIRTH_DATE" :> "2022-11-01" @@ "dob" :> "2022-11-01"),
      ("BIRTH_DATE" :> "2022-11-01" @@ "dob" :> "2022-11-18") }

ScoreEmailRows ==
    { ("EMAIL_ADDRESS" :> "js@x.com" @@ "email_address" :> "j.s@x.com"),
      ("EMAIL_ADDRESS" :> "js@x.com" @@ "email_address" :> "") }

ScoreAddressRows ==
    { ("E_ADDR_CALCULATED" :> "4 Privet Drive" @@
       "R_ADDR_CALCULATED" :> "4 privet drive"),
      ("E_ADDR_CALCULATED" :> "1313 Mockingbird Lane" @@
       "R_ADDR_CALCULATED" :> "1313 Mockingbird Ln"),
      ("E_ADDR_CALCULATED" :> "1 Main St" @@ "R_ADDR_CALCULATED" :> "") }

ScorePhoneRows ==
    { ("HOME_PHONE" :> "" @@ "WORK_PHONE" :> "800-555-1212" @@
       "Mobile_Phone" :> "" @@ "phone_number" :> "800-555-1212"),
      ("HOME_PHONE" :> "800-555-1212" @@ "WORK_PHONE" :> "800-555-1213" @@
       "Mobile_Phone" :> "" @@ "phone_number" :> "(800) 555-1212"),
      ("HOME_PHONE" :> "800-555-1213" @@ "WORK_PHONE" :> "" @@
       "Mobile_Phone" :> "800-555-1212" @@ "phone_number" :> "800-555-1212"),
      ("HOME_PHONE" :> "000-000-0000" @@ "WORK_PHONE" :> "800-555-1213" @@
       "Mobile_Phone" :> "800-555-1214" @@ "phone_number" :> "800-555-1212"),
      ("HOME_PHONE" :> "800-555-1214" @@ "WORK_PHONE" :> "800-555-1212" @@
       "Mobile_Phone" :> "800-555-1213" @@ "phone_number" :> "800-555-1213") }

ScoreRows ==
    { a @@ b @@ c @@ d @@ e @@ f @@ g :
        a \in ScoreIdentityRows, b \in ScoreMrnRows, c \in ScoreNameRows,
        d \in ScoreDobRows, e \in ScoreEmailRows, f \in ScoreAddressRows,
        g \in ScorePhoneRows }

ScoreFacilityAddressLists == {<<>>, <<"4 Privet Drive">>}
ScoreFacilityPhoneLists == {<<>>, <<"(800) 555-1212">>}

InitScore ==
    /\ row \in ScoreRows
    /\ facility_addresses \in ScoreFacilityAddressLists
    /\ facility_phone_numbers \in ScoreFacilityPhoneLists
    /\ match_record = NoObject
    /\ exact = Idle /\ criteria = Idle /\ match_tuple = NoObject
    /\ record_call = NoObject
    /\ IdleExcept("Record")

SpecScore == InitScore /\ [][NextRecord]_vars

\* The row with both values of a field taken out.
Without(r, epic_field, redcap_field) ==
    [f \in DOMAIN r |-> IF f \in {epic_field, redcap_field} THEN "" ELSE r[f]]

\* What the address of the record adds to its score: the score less the
\* score of the record built from the row without the address.
AddressContributes(obj) ==
    obj.score - MatchRecord(Without(row, "E_ADDR_CALCULATED", "R_ADDR_CALCULATED"),
                            facility_addresses, facility_phone_numbers).score

\* The record was built from the pair of Example 2 under no facility
\* address.
MockingbirdBuilt ==
    /\ match_record # NoObject
    /\ row["E_ADDR_CALCULATED"] = "1313 Mockingbird Lane"
    /\ row["R_ADDR_CALCULATED"] = "1313 Mockingbird Ln"
    /\ facility_addresses = <<>>

\* C21, as stated: the address pair ("1313 Mockingbird Lane",
\* "1313 Mockingbird Ln") with an empty ignore-list is rated SUBSTRING,
\* which is good enough and adds 1 to the score.
C21_MockingbirdIsSubstring ==
    MockingbirdBuilt =>
        /\ match_record.record["C_ADDR_CALCULATED"].match_quality
                = "MATCHED_SUBSTRING"
        /\ good_enough(match_record.record["C_ADDR_CALCULATED"])
        /\ AddressContributes(match_record) = 1

\* C21, amended: the address pair ("1313 Mockingbird Lane",
\* "1313 Mockingbird Ln") with an empty ignore-list is rated NOPE, since
\* neither value contains the other ("Ln" is no part of "Lane"); it is not
\* good enough and adds nothing to the score.
C21_MockingbirdIsNope ==
    MockingbirdBuilt =>
        /\ match_record.record["C_ADDR_CALCULATED"].match_quality
                = "MATCHED_NOPE"
        /\ ~good_enough(match_record.record["C_ADDR_CALCULATED"])
        /\ AddressContributes(match_record) = 0

\* C21 witness: a record of the pair whose other two bonus fields are good
\* enough, scored without the bonus.
C21_Witness ==
    /\ MockingbirdBuilt
    /\ match_record.record["C_ADDR_CALCULATED"].epic_value
            = "1313 Mockingbird Lane"
    /\ match_record.record["C_ADDR_CALCULATED"].redcap_value
            = "1313 Mockingbird Ln"
    /\ good_enough(match_record.record["C_DOB"])
    /\ good_enough(match_record.record["C_NAME_CALCULATED"])
    /\ match_record.score = Cardinality(GoodScoreFields(match_record))


\* C22: whenever the calculated address, the date of birth and the
\* calculated name are all good enough, is_match() with its default
\* arguments (exact false, criteria 5) returns bool = true, whatever the
\* other fields are.
C22_BonusIsDecisive ==
    (/\ match_tuple # NoObject /\ match_tuple.raised = ""
     /\ exact = FALSE /\ criteria = DefaultCriteria
     /\ BonusFieldsGood(match_record))
        => match_tuple.bool = TRUE


\* The record of the same row under empty facility lists.
Unlisted == MatchRecord(row, <<>>, <<>>)

\* The address of the row matches between the two systems (free is the
\* record under empty lists) and is on the facility address list; the phone
\* of the row matches and is on the facility phone list.
AddressListed(free) ==
    /\ good_enough(free.record["C_ADDR_CALCULATED"])
    /\ {free.record["C_ADDR_CALCULATED"].epic_value,
        free.record["C_ADDR_CALCULATED"].redcap_value}
            \cap Members(facility_addresses) # {}
PhoneListed(free) ==
    /\ good_enough(free.record["C_PHONE_CALCULATED"])
    /\ free.record["C_PHONE_CALCULATED"].redcap_value
            \in Members(CleanAll(facility_phone_numbers))

\* C24, as stated: in the record a construction made, a matching address
\* (or phone) that is on the facility ignore-list is rated IGNORED and the score is strictly lower than the
\* score of the same row under empty ignore-lists; for no row do the
\* ignore-lists raise the score.
C24_IgnoredLowersTheScore ==
    (match_record # NoObject /\ record_call.op = "__init__") =>
        With(Unlisted, LAMBDA free :
            /\ AddressListed(free) =>
                /\ match_record.record["C_ADDR_CALCULATED"].match_quality
                        = "IGNORED"
                /\ match_record.score < free.score
            /\ PhoneListed(free) =>
                /\ match_record.record["C_PHONE_CALCULATED"].match_quality
                        = "IGNORED"
                /\ match_record.score < free.score
            /\ match_record.score <= free.score)

\* C24, amended: in the record a construction made, a matching address
\* (or phone) that is on the facility ignore-list is rated IGNORED and is not counted among the good fields.
\* For the address the score is strictly lower than under empty
\* ignore-lists.  For the phone the score is never higher, and it is the
\* same only when address, date of birth and name are all good enough and
\* the bonus sets the score to 4 with the phone and without it.  For no row
\* do the ignore-lists raise the score.
C24_IgnoredNeverCounts ==
    (match_record # NoObject /\ record_call.op = "__init__") =>
        With(Unlisted, LAMBDA free :
            /\ AddressListed(free) =>
                /\ match_record.record["C_ADDR_CALCULATED"].match_quality
                        = "IGNORED"
                /\ match_record.score < free.score
            /\ PhoneListed(free) =>
                /\ match_record.record["C_PHONE_CALCULATED"].match_quality
                        = "IGNORED"
                /\ Cardinality(GoodScoreFields(match_record))
                        < Cardinality(GoodScoreFields(free))
                /\ match_record.score = free.score =>
                        /\ BonusFieldsGood(match_record)
                        /\ match_record.score = BonusScore
            /\ match_record.score <= free.score)

\* C24 witness: the matching phone is on the facility list and the record
\* scores 4 by the bonus, as it does under empty lists.
C24_Witness ==
    /\ match_record # NoObject /\ record_call.op = "__init__"
    /\ match_record.record["C_PHONE_CALCULATED"].match_quality = "IGNORED"
    /\ match_record.score = BonusScore
    /\ With(Unlisted, LAMBDA free :
            /\ PhoneListed(free) /\ ~AddressListed(free)
            /\ free.score = BonusScore)


\* The comparison of one Epic phone of the row with the REDCap phone, both
\* as clean_up_phone leaves them, under the cleaned facility numbers.
PhoneCandidate(field) ==
    MatchVariable(clean_up_phone(row[field]), clean_up_phone(row["phone_number"]),
                  CleanAll(facility_phone_numbers))

\* The search stops at a comparison that is good enough or IGNORED.
StopsAt(mv) ==
    QualityValue(mv.match_quality) > 0 \/ mv.match_quality = "IGNORED"

\* C25: the calculated phone is the comparison of the first of the home,
\* work and mobile phones of Epic, in this order, whose comparison with the
\* one REDCap phone is good enough or IGNORED, and the comparison of the
\* mobile phone when there is none; with home empty, work "800-555-1212"
\* and REDCap "800-555-1212" it is the work comparison, rated EXACT.
C25_FirstPhoneThatStops ==
    match_record # NoObject =>
        LET phone == match_record.record["C_PHONE_CALCULATED"]
        IN  /\ phone =
                IF StopsAt(PhoneCandidate("HOME_PHONE"))
                THEN PhoneCandidate("HOME_PHONE")
                ELSE IF StopsAt(PhoneCandidate("WORK_PHONE"))
                THEN PhoneCandidate("WORK_PHONE")
                ELSE PhoneCandidate("Mobile_Phone")
            /\ (/\ row["HOME_PHONE"] = "" /\ row["WORK_PHONE"] = "800-555-1212"
                /\ row["phone_number"] = "800-555-1212"
                /\ facility_phone_numbers = <<>>)
                    => /\ phone.epic_value = "8005551212"
                       /\ phone.match_quality = "MATCHED_EXACT"

\* C25 witness: the home phone is empty and the work phone is the REDCap
\* phone; the calculated phone is the work comparison, EXACT.
C25_Witness ==
    /\ match_record # NoObject
    /\ row["HOME_PHONE"] = "" /\ row["WORK_PHONE"] = "800-555-1212"
    /\ row["phone_number"] = "800-555-1212"
    /\ facility_phone_numbers = <<>>
    /\ match_record.record["C_PHONE_CALCULATED"]
            = [epic_value |-> "8005551212", redcap_value |-> "8005551212",
               match_quality |-> "MATCHED_EXACT"]


\* The identifiers a history string holds: its runs of letters and digits.
HistoricalIdentifiers(hx) ==
    {SubSeq(hx, run[1], run[2]) : run \in
        {<<i, j>> \in (1..Len(hx)) \X (1..Len(hx)) :
            /\ i <= j
            /\ \A k \in i..j : IsAlnum(CharAt(hx, k))
            /\ (i = 1 \/ ~IsAlnum(CharAt(hx, i - 1)))
            /\ (j = Len(hx) \/ ~IsAlnum(CharAt(hx, j + 1)))}}

\* C26: when the comparison of the primary MRNs is not good enough and the
\* row has historical MRNs, each of them is tried against the REDCap MRN:
\* the calculated MRN is good enough whenever the REDCap MRN equals one of
\* the historical MRNs, of any length; when the primary comparison is good
\* enough, the calculated MRN is the primary comparison.
C26_EachHistoricalIsRetried ==
    match_record # NoObject =>
        LET primary == MatchVariable(row["MRN"], row["mrn"], <<>>)
            mrn == match_record.record["C_MRN_CALCULATED"]
        IN  /\ good_enough(primary) => mrn = primary
            /\ (/\ ~good_enough(primary)
                /\ Strip(row["mrn"]) \in HistoricalIdentifiers(row["MRN_HX"]))
                    => good_enough(mrn)


\* ------------------------------------------------------------------------
\* SpecReaderFair: SpecReader, where a call that has begun keeps running
\* ------------------------------------------------------------------------

\* The reader runs in one thread: a step that can be taken is taken.
SpecReaderFair == SpecReader /\ WF_vars(NextReader)

\* A parse is under way.
Parsing == frame.pc \notin {"new", "done"}

\* How far the parse is from its end at the line the cursor is on: the
\* places of __read and __read_crc_decision in the order in which a block
\* is gone through, and nearly at the end once __next_line has returned
\* None.
StepsLeft ==
    CASE frame.pc = "seek"      -> IF frame.next_line = None THEN 1 ELSE 9
      [] frame.pc = "columns"   -> 8
      [] frame.pc = "fields"    -> 7
      [] frame.pc = "block_end" -> IF frame.next_line = None THEN 1 ELSE 6
      [] frame.pc = "same"      -> IF frame.decision_line = None THEN 2 ELSE 5
      [] frame.pc = "reason"    -> IF frame.decision_line = None THEN 2 ELSE 4
      [] OTHER                  -> 0

\* C23: read_text comes to an end on every input: during a parse the row
\* index never decreases and never passes the last line, every step of the
\* parser, a turn of any of its loops included, moves the row index on or
\* brings the parse nearer its end without moving it, and every parse that
\* has begun ends.
C23_ParseTerminates ==
    /\ [](row_index <= Max({0, Len(report_contents) - 1}))
    /\ [][Parsing =>
            /\ row_index' >= row_index
            /\ row_index' > row_index \/ StepsLeft' < StepsLeft]_vars
    /\ (Parsing ~> frame.pc = "done")

\* C23 witness: a parse of two blocks has ended at the last line, with a
\* row for each block.
C23_Witness ==
    /\ frame.pc = "done" /\ frame.raised = ""
    /\ Len(frame.reviewed_matches) = 2
    /\ row_index = Len(report_contents) - 1


\* The field lines is_match writes for the rows of the reports: each line
\* with the name and the two values summarize_match laid out on it.
FieldLines ==
    UNION {
        With(MatchRecord(ReportRows[i], <<>>, <<>>), LAMBDA obj :
            {[line   |-> summarize_match(obj.record[SCORE_FIELDS[k]],
                                         SCORE_FIELDS[k]) \o "\n",
              name   |-> SCORE_FIELDS[k],
              epic   |-> obj.record[SCORE_FIELDS[k]].epic_value,
              redcap |-> obj.record[SCORE_FIELDS[k]].redcap_value] :
                k \in 1..Len(SCORE_FIELDS)}) :
        i \in 1..Len(ReportRows)}

\* A written value as a parsed one: absent when it is empty or spells NULL.
Parsed(value) ==
    IF value = "" \/ Upper(value) = "NULL" THEN None ELSE value

\* C27: for every field line of a block the serializer wrote, the Epic
\* value and the REDCap value the parser stores for the line are the two
\* values written on it, each under its own side, also when exactly one of
\* the two is empty; a value that spells NULL in any letter case is stored
\* as absent.
C27_FieldLineRoundTrip ==
    frame.pc = "fields" =>
        \A fl \in FieldLines :
            frame.next_line = fl.line =>
                LET name == Strip(Remove(fl.name, "C_"))
                IN  /\ {"EPIC_" \o name, "REDCAP_" \o name}
                            \subseteq DOMAIN frame.match_dict
                    /\ frame.match_dict["EPIC_" \o name] = Parsed(fl.epic)
                    /\ frame.match_dict["REDCAP_" \o name] = Parsed(fl.redcap)


\* The reports of two or more blocks under the titles the reader looks
\* for, each with what the reviewer left under its blocks.
MultiBlockTexts ==
    UNION {
        {[text    |-> WriteRecords(BatchSummaries(n, TRUE), addenda, 1),
          blocks  |-> n,
          addenda |-> addenda] : addenda \in [1..n -> BatchAddenda]} :
        n \in 2..MaxBatch}

\* A review section has a line containing "Same".
HasSameLine(review) ==
    \E k \in 1..Len(ReadLines(review)) : IsSubstr("Same", ReadLines(review)[k])

\* C29: in an input of several blocks, every block that has a header and a
\* closing separator yields exactly one record, in the order of the input,
\* and the decision of a block comes from its own review section: a block
\* whose review section has no line containing "Same" gets neither MATCH nor
\* NO_MATCH from the marks under a later block.
C29_BlocksAreReadApart ==
    frame.pc = "done" =>
        \A report \in MultiBlockTexts :
            block_txt = report.text =>
                /\ frame.raised = ""
                /\ Len(Rows_read) = report.blocks
                /\ \A k \in 1..Len(Rows_read) :
                    /\ Rows_read[k]["REDCAP_DOB"] =
                            ReportRows[((k - 1) % Len(ReportRows)) + 1]["dob"]
                    /\ ~HasSameLine(report.addenda[k]) =>
                            DecisionOf(k) \notin {CrcReview_str("MATCH"),
                                                  CrcReview_str("NO_MATCH")}


\* ------------------------------------------------------------------------
\* SpecPending: the writer of a resolver whose store holds earlier reviews
\* ------------------------------------------------------------------------

\* The table of matches at the start: without rows, or with the review that
\* marked the first pair Same.
PendingTables ==
    {init_matches_table(<<>>),
     read_reports(init_matches_table(<<>>), "reports",
                  <<ReviewedFile(<<Review(1, 1)>>)>>).matches}

InitPending ==
    /\ connection = Open
    /\ decisions = init_decisions_table(<<>>)
    /\ matches \in PendingTables
    /\ reports = <<>>
    /\ report_files = EmptyDict
    /\ imported = {}
    /\ returned = [op |-> "__init__", arg |-> NewDatabase, value |-> None,
                  raised |-> ""]
    /\ IdleExcept("Resolver")

NextPending ==
    \/ AddMatch
    \/ AddPossibleWobbler
    \/ WriteReport
    \/ ReportWobblers

SpecPending == InitPending /\ [][NextPending]_vars

\* num_reports()
num_reports == Len(reports)

\* C28: num_reports() is the number of add calls so far that supplied a
\* string that is not empty (for add_possible_wobbler: whose lookup
\* returned NOT_SURE).  It is 0 at the start; such a call puts its block at
\* the end of the pending blocks, also when the same block is pending
\* already; every other add call, write and report_wobblers leave the
\* pending blocks as they are, and a write with blocks pending emits all of
\* them, those an earlier write emitted included.
C28_PendingBlocksAreKept ==
    /\ (returned.op = "__init__" => num_reports = 0)
    /\ [][/\ returned'.op = "add_match" =>
                reports' = IF returned'.arg \notin {None, ""}
                           THEN Append(reports, returned'.arg) ELSE reports
          /\ (returned'.op = "add_possible_wobbler" /\ returned'.raised = "") =>
                reports' =
                    IF lookup_potential_match(matches, returned'.arg).value
                            = "NOT_SURE"
                    THEN Append(reports, returned'.arg) ELSE reports
          /\ returned'.op \in {"write", "report_wobblers"} =>
                /\ reports' = reports
                /\ (num_reports >= 1 /\ returned'.raised = "") =>
                        \E f \in DOMAIN report_files' :
                            FileText(report_files', f) =
                                FileText(report_files, f)
                                    \o ExpectedReport(reports)]_vars

\* C28 witness: two calls of write emitted the same two pending blocks, two
\* copies of one block, into one file, and both are pending still.
C28_Witness ==
    /\ returned.op = "write"
    /\ num_reports = 2 /\ reports[1] = reports[2]
    /\ \E f \in DOMAIN report_files :
            FileText(report_files, f)
                = ExpectedReport(reports) \o ExpectedReport(reports)


\* ------------------------------------------------------------------------
\* SpecUpdate: a REDCapUpdate and the calls of set
\* ------------------------------------------------------------------------

\* The properties and the values handed to set.
UpdateProperties ==
    {"first_name", "last_name", "study_id", "unexpected argument"}
UpdateValues ==
    <<PyStr(""), PyStr("Alice"), PyStr("won't work"), PyInt(0), PyInt(7),
      PyInt(12)>>

InitUpdate ==
    /\ redcap_update = REDCapUpdate
    /\ update_call = [op |-> "__init__", property |-> None,
                      value |-> PyStr(""), raised |-> "",
                      needed_before |-> FALSE, package_before |-> EmptyDict]
    /\ IdleExcept("Update")

\* update_obj.set(property, value)
Set ==
    /\ \E property \in UpdateProperties, v \in DOMAIN UpdateValues :
        \E out \in {REDCapUpdate_set(redcap_update, property,
                                     UpdateValues[v])} :
            /\ redcap_update' = out.self
            /\ update_call' =
                [op |-> "set", property |-> property,
                 value |-> UpdateValues[v],
                 raised |-> out.raised,
                 needed_before |-> REDCapUpdate_needed(redcap_update),
                 package_before |-> REDCapUpdate_package(redcap_update)]
    /\ UNCHANGED restUpdate

NextUpdate == Set

SpecUpdate == InitUpdate /\ [][NextUpdate]_vars

\* C30: after a call of set that raised KeyError or TypeError, needed() and
\* package() return what they returned before the call.
C30_FailedSetChangesNothing ==
    (update_call.op = "set" /\ update_call.raised # "") =>
        /\ REDCapUpdate_needed(redcap_update) = update_call.needed_before
        /\ REDCapUpdate_package(redcap_update) = update_call.package_before

====
